---- MODULE Spec2Model ----
(***************************************************************************)
(* State-machine model of src-tauri/src/lib.rs: the SQLite-backed storage   *)
(* layer (owners, credentials, payment sync of two providers, ledger       *)
(* journal, product meta, schema manager).  One action per tauri command;  *)
(* `db` is the rows of the configured storage file, one field per table,   *)
(* and `app` the configured path, the preference file and, per path, what  *)
(* the schema manager reads and writes of a storage file.                  *)
(*                                                                         *)
(* Abstractions, all stated here:                                          *)
(*  - column values are small integers 1..MaxVal; an Option<T> column is   *)
(*    a set with at most one element ({} is NULL);                         *)
(*  - columns that the code binds, stores and overwrites in exactly the    *)
(*    same way as a modelled column are represented by that column (the    *)
(*    representative is named where the row is built);                     *)
(*  - Utc::now() is the integer `clock`; one clock unit is the password    *)
(*    validity period (Duration::days(30));                                *)
(*  - Uuid::new_v4() is a counter that never repeats;                      *)
(*  - created_at / updated_at of tbl_user, tbl_credential and created_at   *)
(*    of the payment tables are written once from Utc::now() and read by   *)
(*    no modelled command: they are left out;                              *)
(*  - whether a connection enforces foreign keys without the PRAGMA is a   *)
(*    property of the linked SQLite build: `foreign_keys` is chosen once,  *)
(*    in Init, and only run_migrations' own connection sets the PRAGMA.    *)
(***************************************************************************)
EXTENDS Integers, Sequences, FiniteSets, TLC

\* ---------------------------------------------------------------- bounds
MaxUsers == 2
MaxPay == 1
MaxVal == 2
MaxLine == 2
MaxItems == 2
MaxClock == 1
MaxLedgerClock == 2
MaxSteps == 3
MaxFaultSteps == 2
MaxLedgerSteps == 3
MaxLedgerFaultSteps == 3
MaxKey == 2
MaxAccounts == 2
MaxEntries == 1
MaxTag == 2
MaxTags == 2
MaxPassword == 1
MaxMetaItem == 1
MaxMetaTag == 1
MaxCategory == 2
MaxCategories == 2
MaxMetas == 2
MaxMetaSteps == 2
MaxPath == 2
MaxStoreSteps == 3
MaxAccountSteps == 3
MaxWriteSteps == 3
MaxSessionSteps == 3
MaxStoreFaultSteps == 2
MaxOpenFaultSteps == 3
MaxCustomCategories == 1
MaxSeedSteps == 3
MaxNameLen == 3
MaxTableSteps == 2
MaxRelay == 1
MaxRelaySteps == 3
MaxMetaFaultSteps == 2

\* chrono::Duration::days(30), in clock units (one unit is that period).
PasswordValidPeriods == 1

UserIds == 1..MaxUsers
PayIds == 1..MaxPay
Vals == 1..MaxVal
LineNos == 1..MaxLine
Keys == 1..MaxKey
AccountIds == 1..MaxAccounts
EntryIds == 1..MaxEntries
Tags == 1..MaxTag
Passwords == 1..MaxPassword
CategoryIds == 1..MaxCategory

\* The default category c as seed_default_categories writes it: its id, its
\* name and its color (a nullable column), each named after the id.
DefaultCategory(c) == [ id |-> c, name |-> c, color |-> {c} ]

\* The names a category can carry: the defaults' and one more;
\* the ids: the defaults' and those create_category draws.
CategoryNames == 1..(MaxCategory + 1)
CustomCategoryIds == (MaxCategory + 1)..(MaxCategory + MaxCustomCategories)
Paths == 1..MaxPath

VARIABLES db, last, clock, foreign_keys, uuid, steps, app

vars == <<db, last, clock, foreign_keys, uuid, steps, app>>

\* ------------------------------------------------------------ the schema
\* Tables of run_migrations' CREATE TABLE batch; seq is sqlite_sequence
\* (the AUTOINCREMENT counters of the four payment tables).  Rows keyed by
\* a uuid or a rowid that nothing reads (tbl_credential.id,
\* tbl_ledger_tag.id, tbl_ledger_history.id, the product tag and link ids)
\* carry no id and are kept as sequences in insertion order, so that two
\* rows with the same content are two rows.
EmptyDb ==
    [ tbl_user |-> {},
      tbl_credential |-> <<>>,
      tbl_naver_payment |-> {},
      tbl_naver_payment_item |-> {},
      tbl_coupang_payment |-> {},
      tbl_coupang_payment_item |-> {},
      tbl_ledger_account |-> {},
      tbl_ledger_entry |-> {},
      tbl_ledger_tag |-> <<>>,
      tbl_ledger_history |-> <<>>,
      tbl_category |-> { DefaultCategory(c) : c \in CategoryIds },
      tbl_product_meta |-> {},
      tbl_product_tag |-> <<>>,
      tbl_product_category |-> <<>>,
      seq |-> [ tbl_naver_payment |-> 0, tbl_naver_payment_item |-> 0,
                tbl_coupang_payment |-> 0, tbl_coupang_payment_item |-> 0 ] ]

\* Sequences over S of length 0..n.
SeqsUpTo(S, n) == UNION { [1..k -> S] : k \in 0..n }

\* The set of elements of a sequence.
Range(s) == { s[i] : i \in DOMAIN s }

\* A connection in autocommit mode: every statement that ran stays stored.
TxAutocommit(before, r) == r.db

\* A transaction's outcome: rusqlite's Transaction rolls back when it is
\* dropped without commit (every `?` early return), so a failed call leaves
\* the stored state it started from.
TxResult(before, r) == IF r.ok THEN r.db ELSE before

\* ----------------------------------------------------------- payloads
\* A payment payload: the external id, one value for every header column,
\* and the ordered line items (line numbers may repeat: the type is a Vec).
\* Line numbers are listed in non-decreasing order: each item is upserted on
\* its own (payment_id, line_no) key, so the order among distinct line numbers
\* decides only which row id a new item gets.
LineLists ==
    { s \in SeqsUpTo(LineNos, MaxItems) :
        \A i, j \in DOMAIN s : i < j => s[i] <= s[j] }
Payments == [ext : PayIds, val : Vals, lines : LineLists]

\* The statements of a sync, in order: 1 the header upsert, 2 the surrogate
\* id lookup, 2+k the upsert of item k, then the commit.  `fail_at` is the
\* statement at which the storage engine reports an error (0: none).
SyncSteps(p) == Len(p.lines) + 3

OwnerIds(d) == { u.id : u \in d.tbl_user }

\* ------------------------------------------------- save_naver_payment
\* A header upsert whose conflict target is pay_id alone, without user_id.
NaverHeaderKeyedByPayOnly(d, fk, now, user_id, p) ==
    LET hit == { r \in d.tbl_naver_payment : r.pay_id = p.ext }
    IN  IF hit # {}
        THEN [ ok |-> TRUE,
               db |-> [d EXCEPT !.tbl_naver_payment = (@ \ hit) \cup
                        { [r EXCEPT !.user_id = user_id, !.status_code = p.val,
                                    !.merchant_name = p.val, !.total_amount = p.val,
                                    !.external_id = p.val, !.updated_at = now]
                          : r \in hit }] ]
        ELSE [ ok |-> TRUE,
               db |-> [d EXCEPT
                        !.tbl_naver_payment = @ \cup
                          { [ id |-> d.seq.tbl_naver_payment + 1, user_id |-> user_id,
                              pay_id |-> p.ext, external_id |-> p.val,
                              status_code |-> p.val, merchant_name |-> p.val,
                              total_amount |-> p.val, paid_at |-> p.val,
                              discount_amount |-> p.val,
                              updated_at |-> now ] },
                        !.seq.tbl_naver_payment = @ + 1] ]

\* Header upsert.  external_id stands for {external_id, service_type},
\* status_code for {status_code, status_text, status_color}, paid_at for the
\* text columns the ON CONFLICT clause does not list (paid_at,
\* purchaser_name, merchant_no, merchant_tel, ...), discount_amount for the
\* amount columns it does not list (discount_amount .. benefit_amount).
NaverHeaderUpsert(d, fk, now, user_id, p) ==
    LET hit == { r \in d.tbl_naver_payment :
                    r.user_id = user_id /\ r.pay_id = p.ext }
    IN  IF hit # {}
        THEN [ ok |-> TRUE,
               db |-> [d EXCEPT !.tbl_naver_payment = (@ \ hit) \cup
                        { [r EXCEPT !.external_id = p.val, !.status_code = p.val,
                                    !.updated_at = now, !.merchant_name = p.val,
                                    !.total_amount = p.val]
                          : r \in hit }] ]
        ELSE IF fk /\ user_id \notin OwnerIds(d)
        THEN [ ok |-> FALSE, db |-> d ]
        ELSE [ ok |-> TRUE,
               db |-> [d EXCEPT
                        !.tbl_naver_payment = @ \cup
                          { [ id |-> d.seq.tbl_naver_payment + 1, user_id |-> user_id,
                              pay_id |-> p.ext, external_id |-> p.val,
                              status_code |-> p.val, merchant_name |-> p.val,
                              total_amount |-> p.val, paid_at |-> p.val,
                              discount_amount |-> p.val,
                              updated_at |-> now ] },
                        !.seq.tbl_naver_payment = @ + 1] ]

\* A line-item write that is a plain INSERT, without a conflict target.
NaverItemInsertOnly(d, now, pk, line, val) ==
    [d EXCEPT
        !.tbl_naver_payment_item = @ \cup
          { [ id |-> d.seq.tbl_naver_payment_item + 1, payment_id |-> pk,
              line_no |-> line, product_name |-> val, quantity |-> val,
              rest_amount |-> val, memo |-> val,
              updated_at |-> now ] },
        !.seq.tbl_naver_payment_item = @ + 1]

\* Line-item upsert.  product_name stands for {product_name, image_url,
\* info_url}, quantity for {quantity, unit_price, line_amount}; rest_amount
\* and memo are bound on insert and absent from the ON CONFLICT clause.
NaverItemUpsert(d, now, pk, line, val) ==
    LET hit == { r \in d.tbl_naver_payment_item :
                    r.payment_id = pk /\ r.line_no = line }
    IN  IF hit # {}
        THEN [d EXCEPT !.tbl_naver_payment_item = (@ \ hit) \cup
                { [r EXCEPT !.product_name = val, !.quantity = val,
                            !.updated_at = now] : r \in hit }]
        ELSE [d EXCEPT
                !.tbl_naver_payment_item = @ \cup
                  { [ id |-> d.seq.tbl_naver_payment_item + 1, payment_id |-> pk,
                      line_no |-> line, product_name |-> val, quantity |-> val,
                      rest_amount |-> val, memo |-> val,
                      updated_at |-> now ] },
                !.seq.tbl_naver_payment_item = @ + 1]

RECURSIVE NaverItems(_, _, _, _, _, _)
NaverItems(d, now, pk, p, k, fail_at) ==
    IF k > Len(p.lines)
    THEN [ ok |-> fail_at # SyncSteps(p), db |-> d ]
    ELSE IF fail_at = 2 + k
    THEN [ ok |-> FALSE, db |-> d ]
    ELSE NaverItems(NaverItemUpsert(d, now, pk, p.lines[k], p.val),
                    now, pk, p, k + 1, fail_at)

\* The transaction body of save_naver_payment: the working copy it reached
\* and whether every statement and the commit succeeded.
SaveNaverPaymentTx(d, fk, now, user_id, p, fail_at) ==
    IF fail_at = 1 THEN [ ok |-> FALSE, db |-> d ]
    ELSE LET h == NaverHeaderUpsert(d, fk, now, user_id, p)
         IN  IF ~h.ok \/ fail_at = 2 THEN [ ok |-> FALSE, db |-> h.db ]
             ELSE LET pk == (CHOOSE r \in h.db.tbl_naver_payment :
                                r.user_id = user_id /\ r.pay_id = p.ext).id
                  IN  NaverItems(h.db, now, pk, p, 1, fail_at)

\* ----------------------------------------------- save_coupang_payment
\* A header write with INSERT OR REPLACE in place of the upsert: the
\* conflicting row is deleted and a row with a fresh surrogate id inserted.
CoupangHeaderReplace(d, fk, now, user_id, p) ==
    LET hit == { r \in d.tbl_coupang_payment :
                    r.user_id = user_id /\ r.order_id = p.ext }
    IN  IF fk /\ user_id \notin OwnerIds(d)
        THEN [ ok |-> FALSE, db |-> d ]
        ELSE [ ok |-> TRUE,
               db |-> [d EXCEPT
                        !.tbl_coupang_payment = (@ \ hit) \cup
                          { [ id |-> d.seq.tbl_coupang_payment + 1, user_id |-> user_id,
                              order_id |-> p.ext, external_id |-> p.val,
                              status_code |-> p.val, ordered_at |-> p.val,
                              merchant_name |-> p.val, total_amount |-> p.val,
                              discount_amount |-> p.val,
                              updated_at |-> now ] },
                        !.seq.tbl_coupang_payment = @ + 1] ]

\* Header upsert: the ON CONFLICT clause lists every column but user_id,
\* order_id and created_at.  ordered_at stands for the text columns
\* (ordered_at, paid_at, merchant_tel, ...), discount_amount for the amount
\* columns besides total_amount.
CoupangHeaderUpsert(d, fk, now, user_id, p) ==
    LET hit == { r \in d.tbl_coupang_payment :
                    r.user_id = user_id /\ r.order_id = p.ext }
    IN  IF hit # {}
        THEN [ ok |-> TRUE,
               db |-> [d EXCEPT !.tbl_coupang_payment = (@ \ hit) \cup
                        { [r EXCEPT !.external_id = p.val, !.status_code = p.val,
                                    !.ordered_at = p.val, !.merchant_name = p.val,
                                    !.total_amount = p.val,
                                    !.discount_amount = p.val, !.updated_at = now]
                          : r \in hit }] ]
        ELSE IF fk /\ user_id \notin OwnerIds(d)
        THEN [ ok |-> FALSE, db |-> d ]
        ELSE [ ok |-> TRUE,
               db |-> [d EXCEPT
                        !.tbl_coupang_payment = @ \cup
                          { [ id |-> d.seq.tbl_coupang_payment + 1, user_id |-> user_id,
                              order_id |-> p.ext, external_id |-> p.val,
                              status_code |-> p.val, ordered_at |-> p.val,
                              merchant_name |-> p.val, total_amount |-> p.val,
                              discount_amount |-> p.val,
                              updated_at |-> now ] },
                        !.seq.tbl_coupang_payment = @ + 1] ]

\* Line-item upsert: every column but payment_id, line_no and created_at is
\* overwritten on conflict.  product_name stands for {product_id,
\* vendor_item_id, product_name, image_url, info_url, brand_name}, quantity
\* for {quantity, unit_price, discounted_unit_price, combined_unit_price,
\* line_amount}.
CoupangItemUpsert(d, now, pk, line, val) ==
    LET hit == { r \in d.tbl_coupang_payment_item :
                    r.payment_id = pk /\ r.line_no = line }
    IN  IF hit # {}
        THEN [d EXCEPT !.tbl_coupang_payment_item = (@ \ hit) \cup
                { [r EXCEPT !.product_name = val, !.quantity = val,
                            !.rest_amount = val, !.memo = val,
                            !.updated_at = now] : r \in hit }]
        ELSE [d EXCEPT
                !.tbl_coupang_payment_item = @ \cup
                  { [ id |-> d.seq.tbl_coupang_payment_item + 1, payment_id |-> pk,
                      line_no |-> line, product_name |-> val, quantity |-> val,
                      rest_amount |-> val, memo |-> val,
                      updated_at |-> now ] },
                !.seq.tbl_coupang_payment_item = @ + 1]

RECURSIVE CoupangItems(_, _, _, _, _, _)
CoupangItems(d, now, pk, p, k, fail_at) ==
    IF k > Len(p.lines)
    THEN [ ok |-> fail_at # SyncSteps(p), db |-> d ]
    ELSE IF fail_at = 2 + k
    THEN [ ok |-> FALSE, db |-> d ]
    ELSE CoupangItems(CoupangItemUpsert(d, now, pk, p.lines[k], p.val),
                      now, pk, p, k + 1, fail_at)

\* A sync that deleted the payment's line items before writing the
\* payload's (delete and recreate in place of the upsert).
SaveCoupangPaymentRecreatingItems(d, fk, now, user_id, p, fail_at) ==
    IF fail_at = 1 THEN [ ok |-> FALSE, db |-> d ]
    ELSE LET h == CoupangHeaderUpsert(d, fk, now, user_id, p)
         IN  IF ~h.ok \/ fail_at = 2 THEN [ ok |-> FALSE, db |-> h.db ]
             ELSE LET pk == (CHOOSE r \in h.db.tbl_coupang_payment :
                                r.user_id = user_id /\ r.order_id = p.ext).id
                  IN  CoupangItems(
                        [h.db EXCEPT !.tbl_coupang_payment_item =
                            { i \in @ : i.payment_id # pk }],
                        now, pk, p, 1, fail_at)

\* The transaction body of save_coupang_payment, as save_naver_payment's.
SaveCoupangPaymentTx(d, fk, now, user_id, p, fail_at) ==
    IF fail_at = 1 THEN [ ok |-> FALSE, db |-> d ]
    ELSE LET h == CoupangHeaderUpsert(d, fk, now, user_id, p)
         IN  IF ~h.ok \/ fail_at = 2 THEN [ ok |-> FALSE, db |-> h.db ]
             ELSE LET pk == (CHOOSE r \in h.db.tbl_coupang_payment :
                                r.user_id = user_id /\ r.order_id = p.ext).id
                  IN  CoupangItems(h.db, now, pk, p, 1, fail_at)

\* ------------------------------------------------------ owner commands
\* DELETE FROM tbl_user WHERE id = ?1 on a fresh connection: the ON DELETE
\* CASCADE clauses of tbl_credential, tbl_*_payment and tbl_*_payment_item
\* act only when the connection enforces foreign keys.
DeleteUserRows(d, fk, id) ==
    LET np == { r \in d.tbl_naver_payment : r.user_id = id }
        cp == { r \in d.tbl_coupang_payment : r.user_id = id }
    IN  IF ~fk
        THEN [d EXCEPT !.tbl_user = { u \in @ : u.id # id }]
        ELSE [d EXCEPT
                !.tbl_user = { u \in @ : u.id # id },
                !.tbl_credential = SelectSeq(@, LAMBDA c : c.user_id # id),
                !.tbl_naver_payment = @ \ np,
                !.tbl_naver_payment_item =
                    { i \in @ : i.payment_id \notin { r.id : r \in np } },
                !.tbl_coupang_payment = @ \ cp,
                !.tbl_coupang_payment_item =
                    { i \in @ : i.payment_id \notin { r.id : r \in cp } }]

\* The credentials of save_account's header map, as HashMap iteration
\* yields them; INSERT OR REPLACE on UNIQUE(user_id, key).
RECURSIVE SaveCredentials(_, _, _, _, _, _)
SaveCredentials(d, now, user_id, headers, k, fail_at) ==
    IF k > Len(headers) THEN [ ok |-> TRUE, db |-> d ]
    ELSE IF fail_at = 1 + k THEN [ ok |-> FALSE, db |-> d ]
    ELSE SaveCredentials(
            [d EXCEPT !.tbl_credential =
                Append(SelectSeq(@, LAMBDA c : ~(c.user_id = user_id
                                                /\ c.key = headers[k].key)),
                       [ user_id |-> user_id, key |-> headers[k].key,
                         value |-> headers[k].value ])],
            now, user_id, headers, k + 1, fail_at)

\* save_account runs on the connection itself (no transaction): statement 1
\* inserts the owner, statement 1+k the k-th credential.
SaveAccountRun(d, now, user_id, provider, curl, headers, fail_at) ==
    IF fail_at = 1 THEN [ ok |-> FALSE, db |-> d ]
    ELSE SaveCredentials(
            [d EXCEPT !.tbl_user = @ \cup
                { [ id |-> user_id, provider |-> provider, alias |-> curl,
                    curl |-> curl ] }],
            now, user_id, headers, 1, fail_at)

\* A HashMap<String, String> in some iteration order: distinct keys.
HeaderMaps ==
    { h \in SeqsUpTo([key : Keys, value : Vals], MaxKey) :
        \A i, j \in DOMAIN h : i # j => h[i].key # h[j].key }

\* INSERT INTO tbl_credential for each entry of the map: UNIQUE(user_id,
\* key) rejects a stored pair, and the foreign key, when enforced, an owner
\* that is not stored.  `base` is the statement number before the first.
RECURSIVE InsertCredentials(_, _, _, _, _, _, _)
InsertCredentials(d, fk, user_id, headers, k, base, fail_at) ==
    IF k > Len(headers) THEN [ ok |-> TRUE, db |-> d ]
    ELSE IF \/ fail_at = base + k
            \/ \E c \in Range(d.tbl_credential) :
                    c.user_id = user_id /\ c.key = headers[k].key
            \/ fk /\ user_id \notin { u.id : u \in d.tbl_user }
    THEN [ ok |-> FALSE, db |-> d ]
    ELSE InsertCredentials(
            [d EXCEPT !.tbl_credential =
                Append(@, [ user_id |-> user_id, key |-> headers[k].key,
                            value |-> headers[k].value ])],
            fk, user_id, headers, k + 1, base, fail_at)

\* An update that wrote the new credentials over the stored ones without
\* deleting the owner's rows first.
UpdateCredentialsKeepingOld(d, fk, now, user_id, curl, headers, fail_at) ==
    SaveCredentials(
        [d EXCEPT !.tbl_user =
            { IF u.id = user_id THEN [u EXCEPT !.curl = curl] ELSE u : u \in @ }],
        now, user_id, headers, 1, fail_at)

\* update_account_credentials runs on the connection itself (no
\* transaction): statement 1 updates the owner's curl, statement 2 deletes
\* the owner's credentials, statement 2+k inserts the k-th credential.
UpdateCredentialsRun(d, fk, now, user_id, curl, headers, fail_at) ==
    IF fail_at = 1 THEN [ ok |-> FALSE, db |-> d ]
    ELSE LET d1 == [d EXCEPT !.tbl_user =
                     { IF u.id = user_id THEN [u EXCEPT !.curl = curl] ELSE u
                       : u \in @ }]
         IN  IF fail_at = 2 THEN [ ok |-> FALSE, db |-> d1 ]
             ELSE InsertCredentials(
                    [d1 EXCEPT !.tbl_credential =
                        SelectSeq(@, LAMBDA c : c.user_id # user_id)],
                    fk, user_id, headers, 1, 2, fail_at)

\* ------------------------------------------------------ ledger accounts
\* md5 of the password, rendered as hex: distinct passwords, distinct hashes.
hash_password(password) == <<"md5", password>>

\* A purge that sets password_hash to NULL and leaves the expiry stored.
ResetExpiredHashOnly(d, now) ==
    [d EXCEPT !.tbl_ledger_account =
        { IF \E t \in a.password_expires_at : t < now
          THEN [a EXCEPT !.password_hash = {}, !.updated_at = now]
          ELSE a : a \in @ }]

\* UPDATE tbl_ledger_account SET password_hash = NULL, password_expires_at =
\* NULL, updated_at = now WHERE password_expires_at IS NOT NULL AND
\* password_expires_at < now.
check_and_reset_expired_passwords(d, now) ==
    [d EXCEPT !.tbl_ledger_account =
        { IF \E t \in a.password_expires_at : t < now
          THEN [a EXCEPT !.password_hash = {}, !.password_expires_at = {},
                         !.updated_at = now]
          ELSE a : a \in @ }]

LedgerAccountIds(d) == { a.id : a \in d.tbl_ledger_account }

\* The accounts whose stored hash has an expiry in the past.
ExpiredAccounts(d, now) ==
    { a \in d.tbl_ledger_account :
        a.password_hash # {} /\ \E t \in a.password_expires_at : t < now }

\* A listing that reads the account rows without the expiry check.
ListLedgerAccountsUnchecked(d, now) == d.tbl_ledger_account

\* list_ledger_accounts: the expiry check, then SELECT of every account.
ListLedgerAccounts(d, now) ==
    check_and_reset_expired_passwords(d, now).tbl_ledger_account

\* verify_ledger_password: the expiry check, then the stored hash of the
\* account is compared with the hash of the password; NULL answers false.
VerifyLedgerPassword(d, now, account_id, password) ==
    \E a \in check_and_reset_expired_passwords(d, now).tbl_ledger_account :
        a.id = account_id /\ a.password_hash = { hash_password(password) }

\* The passwords a caller can supply: those stored and one never stored.
SuppliedPasswords == 1..(MaxPassword + 1)

\* password is an Option: {} or {p}.  nickname is not modelled apart from
\* the id (it is stored once and never read by the modelled commands).
CreateLedgerAccountRun(d, now, account_id, password) ==
    LET d1 == check_and_reset_expired_passwords(d, now)
    IN  [d1 EXCEPT !.tbl_ledger_account = @ \cup
            { [ id |-> account_id,
                password_hash |-> { hash_password(p) : p \in password },
                password_expires_at |-> { now + PasswordValidPeriods : p \in password },
                created_at |-> now, updated_at |-> now ] }]

UpdateLedgerPasswordRun(d, now, account_id, password) ==
    LET d1 == check_and_reset_expired_passwords(d, now)
    IN  [d1 EXCEPT !.tbl_ledger_account =
            { IF a.id = account_id
              THEN [a EXCEPT !.password_hash = { hash_password(password) },
                             !.password_expires_at = { now + PasswordValidPeriods },
                             !.updated_at = now]
              ELSE a : a \in @ }]

\* DELETE FROM tbl_ledger_entry WHERE id \in ids, with the cascades of
\* tbl_ledger_tag and tbl_ledger_history when foreign keys are enforced.
DeleteEntryRows(d, fk, ids) ==
    IF ~fk
    THEN [d EXCEPT !.tbl_ledger_entry = { e \in @ : e.id \notin ids }]
    ELSE [d EXCEPT
            !.tbl_ledger_entry = { e \in @ : e.id \notin ids },
            !.tbl_ledger_tag = SelectSeq(@, LAMBDA t : t.entry_id \notin ids),
            !.tbl_ledger_history =
                SelectSeq(@, LAMBDA h : h.entry_id \notin ids)]

\* delete_ledger_account: one DELETE on a fresh connection, no expiry check.
DeleteLedgerAccountRun(d, fk, account_id) ==
    LET d1 == [d EXCEPT !.tbl_ledger_account = { a \in @ : a.id # account_id }]
    IN  IF ~fk THEN d1
        ELSE DeleteEntryRows(d1, fk,
                { e.id : e \in { x \in d.tbl_ledger_entry :
                                    x.account_id = account_id } })

\* ------------------------------------------------------- ledger entries
\* CHECK(type IN ('income', 'expense')) and CHECK(platform IN (...)); a NULL
\* platform passes its CHECK.
LedgerTypes == {"income", "expense"}
LedgerPlatforms ==
    {"offline", "online_shopping", "social", "app", "subscription", "etc"}

\* The tags of an input, in non-decreasing order (the order of distinct tags
\* decides nothing but their order in the after-snapshot); a tag may repeat.
TagLists ==
    { s \in SeqsUpTo(Tags, MaxTags) :
        \A i, j \in DOMAIN s : i < j => s[i] <= s[j] }

\* A LedgerEntryInput.  val stands for amount and for the free-text columns
\* (date, title, category, url, merchant, payment_method, memo, color),
\* which the code binds and stores alike; tags is the Vec as given.  An
\* input that a CHECK rejects fails at the entry write whatever its other
\* fields, so one such input per rejected column is kept.
EntryInputs ==
    { e \in [ type : {"income", "transfer"}, val : Vals,
              platform : {{}, {"kiosk"}}, tags : TagLists ] :
        (e.type \notin LedgerTypes \/ ~(e.platform \subseteq LedgerPlatforms))
            => (e.val = 1 /\ e.tags = <<>>) }

ChecksPass(e) == e.type \in LedgerTypes /\ e.platform \subseteq LedgerPlatforms

\* INSERT INTO tbl_ledger_tag for each tag in order; UNIQUE(entry_id, tag)
\* rejects a repeated tag.  `base` is the statement number before the first.
RECURSIVE InsertTags(_, _, _, _, _, _)
InsertTags(d, entry_id, tags, k, base, fail_at) ==
    IF k > Len(tags) THEN [ ok |-> TRUE, db |-> d ]
    ELSE IF fail_at = base + k
            \/ [ entry_id |-> entry_id, tag |-> tags[k] ]
                    \in Range(d.tbl_ledger_tag)
    THEN [ ok |-> FALSE, db |-> d ]
    ELSE InsertTags(
            [d EXCEPT !.tbl_ledger_tag =
                Append(@, [ entry_id |-> entry_id, tag |-> tags[k] ])],
            entry_id, tags, k + 1, base, fail_at)

\* serde_json::to_string(&LedgerEntry): camelCase keys, with the tags.
SnapshotAfter(entry_id, account_id, e, created_at, now) ==
    [ id |-> entry_id, accountId |-> account_id, type |-> e.type,
      amount |-> e.val, title |-> e.val, platform |-> e.platform,
      tags |-> e.tags, createdAt |-> created_at, updatedAt |-> now ]

\* SELECT json_object('id', id, 'account_id', account_id, ...) FROM
\* tbl_ledger_entry WHERE id = ?1, then .ok(): the row's columns under
\* their column names, no tags; None when there is no such row.
SnapshotBefore(d, entry_id) ==
    { [ id |-> r.id, account_id |-> r.account_id, type |-> r.type,
        amount |-> r.amount, title |-> r.title, platform |-> r.platform,
        created_at |-> r.created_at, updated_at |-> r.updated_at ]
      : r \in { x \in d.tbl_ledger_entry : x.id = entry_id } }

HistoryRow(entry_id, action, before, after, now) ==
    [ entry_id |-> entry_id, action |-> action, snapshot_before |-> before,
      snapshot_after |-> after, created_at |-> now ]

\* create_ledger_entry's transaction.  Statements: 1 the expiry check, 2 the
\* entry insert, 2+k tag k, then the history insert and the commit.
CreateLedgerEntryTx(d, fk, now, entry_id, account_id, e, fail_at) ==
    LET n  == Len(e.tags)
        d1 == check_and_reset_expired_passwords(d, now)
        d2 == [d1 EXCEPT !.tbl_ledger_entry = @ \cup
                { [ id |-> entry_id, account_id |-> account_id, type |-> e.type,
                    amount |-> e.val, title |-> e.val, platform |-> e.platform,
                    created_at |-> now, updated_at |-> now ] }]
        t  == InsertTags(d2, entry_id, e.tags, 1, 2, fail_at)
        d3 == [t.db EXCEPT !.tbl_ledger_history = Append(@,
                HistoryRow(entry_id, "create", {},
                    { SnapshotAfter(entry_id, account_id, e, now, now) }, now))]
    IN  IF fail_at = 1 THEN [ ok |-> FALSE, db |-> d ]
        ELSE IF fail_at = 2 \/ ~ChecksPass(e)
                \/ (fk /\ account_id \notin LedgerAccountIds(d1))
        THEN [ ok |-> FALSE, db |-> d1 ]
        ELSE IF ~t.ok THEN [ ok |-> FALSE, db |-> t.db ]
        ELSE IF fail_at = n + 3 THEN [ ok |-> FALSE, db |-> t.db ]
        ELSE [ ok |-> fail_at # n + 4, db |-> d3 ]

\* An update that inserted the input's tags without deleting the entry's
\* stored tags first.
UpdateLedgerEntryKeepingTags(d, fk, now, entry_id, account_id, e, fail_at) ==
    LET n   == Len(e.tags)
        d1  == check_and_reset_expired_passwords(d, now)
        old == CHOOSE x \in d1.tbl_ledger_entry : x.id = entry_id
        before == SnapshotBefore(d1, entry_id)
        d2  == [d1 EXCEPT !.tbl_ledger_entry = (@ \ {old}) \cup
                { [old EXCEPT !.type = e.type, !.amount = e.val, !.title = e.val,
                              !.platform = e.platform, !.updated_at = now] }]
        t   == InsertTags(d2, entry_id, e.tags, 1, 4, fail_at)
        d4  == [t.db EXCEPT !.tbl_ledger_history = Append(@,
                HistoryRow(entry_id, "update", before,
                    { SnapshotAfter(entry_id, old.account_id, e,
                                    old.created_at, now) }, now))]
    IN  IF fail_at = 1 THEN [ ok |-> FALSE, db |-> d ]
        ELSE IF fail_at = 2 \/ ~(\E x \in d1.tbl_ledger_entry : x.id = entry_id)
        THEN [ ok |-> FALSE, db |-> d1 ]
        ELSE IF fail_at = 3 \/ ~ChecksPass(e) THEN [ ok |-> FALSE, db |-> d1 ]
        ELSE IF fail_at = 4 THEN [ ok |-> FALSE, db |-> d2 ]
        ELSE IF ~t.ok THEN [ ok |-> FALSE, db |-> t.db ]
        ELSE IF fail_at = n + 5 THEN [ ok |-> FALSE, db |-> t.db ]
        ELSE [ ok |-> fail_at # n + 6, db |-> d4 ]

\* An update whose UPDATE also set account_id to the input's account id and
\* whose after-snapshot carried the input's account id.
UpdateLedgerEntryMovingAccount(d, fk, now, entry_id, account_id, e, fail_at) ==
    LET n   == Len(e.tags)
        d1  == check_and_reset_expired_passwords(d, now)
        old == CHOOSE x \in d1.tbl_ledger_entry : x.id = entry_id
        before == SnapshotBefore(d1, entry_id)
        d2  == [d1 EXCEPT !.tbl_ledger_entry = (@ \ {old}) \cup
                { [old EXCEPT !.account_id = account_id,
                              !.type = e.type, !.amount = e.val, !.title = e.val,
                              !.platform = e.platform, !.updated_at = now] }]
        d3  == [d2 EXCEPT !.tbl_ledger_tag =
                    SelectSeq(@, LAMBDA x : x.entry_id # entry_id)]
        t   == InsertTags(d3, entry_id, e.tags, 1, 4, fail_at)
        d4  == [t.db EXCEPT !.tbl_ledger_history = Append(@,
                HistoryRow(entry_id, "update", before,
                    { SnapshotAfter(entry_id, account_id, e,
                                    old.created_at, now) }, now))]
    IN  IF fail_at = 1 THEN [ ok |-> FALSE, db |-> d ]
        ELSE IF fail_at = 2 \/ ~(\E x \in d1.tbl_ledger_entry : x.id = entry_id)
        THEN [ ok |-> FALSE, db |-> d1 ]
        ELSE IF fail_at = 3 \/ ~ChecksPass(e) THEN [ ok |-> FALSE, db |-> d1 ]
        ELSE IF fail_at = 4 THEN [ ok |-> FALSE, db |-> d2 ]
        ELSE IF ~t.ok THEN [ ok |-> FALSE, db |-> t.db ]
        ELSE IF fail_at = n + 5 THEN [ ok |-> FALSE, db |-> t.db ]
        ELSE [ ok |-> fail_at # n + 6, db |-> d4 ]

\* update_ledger_entry's transaction.  Statements: 1 the expiry check, 2 the
\* SELECT of account_id and created_at (an error when the entry is absent),
\* 3 the UPDATE, 4 the tag DELETE, 4+k tag k, then history and commit.
\* `account_id` is the input's account id: the UPDATE does not SET it, and
\* the after-snapshot takes existing_account_id and existing_created_at.
UpdateLedgerEntryTx(d, fk, now, entry_id, account_id, e, fail_at) ==
    LET n   == Len(e.tags)
        d1  == check_and_reset_expired_passwords(d, now)
        old == CHOOSE x \in d1.tbl_ledger_entry : x.id = entry_id
        before == SnapshotBefore(d1, entry_id)
        d2  == [d1 EXCEPT !.tbl_ledger_entry = (@ \ {old}) \cup
                { [old EXCEPT !.type = e.type, !.amount = e.val, !.title = e.val,
                              !.platform = e.platform, !.updated_at = now] }]
        d3  == [d2 EXCEPT !.tbl_ledger_tag =
                    SelectSeq(@, LAMBDA x : x.entry_id # entry_id)]
        t   == InsertTags(d3, entry_id, e.tags, 1, 4, fail_at)
        d4  == [t.db EXCEPT !.tbl_ledger_history = Append(@,
                HistoryRow(entry_id, "update", before,
                    { SnapshotAfter(entry_id, old.account_id, e,
                                    old.created_at, now) }, now))]
    IN  IF fail_at = 1 THEN [ ok |-> FALSE, db |-> d ]
        ELSE IF fail_at = 2 \/ ~(\E x \in d1.tbl_ledger_entry : x.id = entry_id)
        THEN [ ok |-> FALSE, db |-> d1 ]
        ELSE IF fail_at = 3 \/ ~ChecksPass(e) THEN [ ok |-> FALSE, db |-> d1 ]
        ELSE IF fail_at = 4 THEN [ ok |-> FALSE, db |-> d2 ]
        ELSE IF ~t.ok THEN [ ok |-> FALSE, db |-> t.db ]
        ELSE IF fail_at = n + 5 THEN [ ok |-> FALSE, db |-> t.db ]
        ELSE [ ok |-> fail_at # n + 6, db |-> d4 ]

\* delete_ledger_entry's transaction.  Statements: 1 the expiry check, 2 the
\* history insert (its foreign key needs the entry when enforced), 3 the
\* entry DELETE with its cascades, 4 the commit.
DeleteLedgerEntryTx(d, fk, now, entry_id, fail_at) ==
    LET d1 == check_and_reset_expired_passwords(d, now)
        d2 == [d1 EXCEPT !.tbl_ledger_history = Append(@,
                HistoryRow(entry_id, "delete", SnapshotBefore(d1, entry_id),
                           {}, now))]
        d3 == DeleteEntryRows(d2, fk, {entry_id})
    IN  IF fail_at = 1 THEN [ ok |-> FALSE, db |-> d ]
        ELSE IF fail_at = 2
                \/ (fk /\ ~(\E x \in d1.tbl_ledger_entry : x.id = entry_id))
        THEN [ ok |-> FALSE, db |-> d1 ]
        ELSE IF fail_at = 3 THEN [ ok |-> FALSE, db |-> d2 ]
        ELSE [ ok |-> fail_at # 4, db |-> d3 ]

\* The tag rows of an entry, in insertion order.
EntryTagRows(d, entry_id) ==
    SelectSeq(d.tbl_ledger_tag, LAMBDA t : t.entry_id = entry_id)

\* get_ledger_entry's answer: None, or the entry row with its tags (SELECT
\* tag ... ORDER BY tag).
GetLedgerEntry(d, entry_id) ==
    { [ id |-> r.id, account_id |-> r.account_id, type |-> r.type,
        amount |-> r.amount, title |-> r.title, platform |-> r.platform,
        tags |-> SortSeq([ k \in DOMAIN EntryTagRows(d, r.id) |->
                            EntryTagRows(d, r.id)[k].tag ],
                         LAMBDA a, b : a < b),
        created_at |-> r.created_at, updated_at |-> r.updated_at ]
      : r \in { x \in d.tbl_ledger_entry : x.id = entry_id } }

\* list_ledger_history's answer for an entry id: the rows WHERE entry_id =
\* ?1, here in insertion order (the ORDER BY created_at DESC is not
\* modelled).
ListLedgerHistory(d, entry_id) ==
    SelectSeq(d.tbl_ledger_history, LAMBDA h : h.entry_id = entry_id)

\* -------------------------------------------------------- product meta
\* tbl_product_tag and tbl_product_category are kept as the sequences of
\* their rows in insertion order (their uuid ids are read by nothing), so
\* that a repeated row would show; tbl_category holds the seeded rows.
MetaProviders == {"naver", "coupang"}
MetaItemIds == 1..MaxMetaItem

\* The tags of an input, in order; a tag may repeat.
MetaTagLists == SeqsUpTo(1..MaxMetaTag, MaxTags)

\* Category ids of an input, in non-decreasing order; an id may repeat.
CategoryLists ==
    { s \in SeqsUpTo(CategoryIds, MaxCategories) :
        \A i, j \in DOMAIN s : i < j => s[i] <= s[j] }

\* CHECK(rating IS NULL OR (rating >= 1 AND rating <= 10)).
RatingOk(input) == \A r \in input.rating : r >= 1 /\ r <= 10

\* A ProductMetaInput.  memo stands for memo and url.  An input whose
\* rating the CHECK rejects fails at the meta write whatever its other
\* fields, so one such input is kept.
ProductMetaInputs ==
    { i \in [ memo : Vals, rating : {{5}, {11}}, tags : MetaTagLists,
              category_ids : CategoryLists ] :
        ~RatingOk(i) => (i.memo = 1 /\ i.tags = <<>> /\ i.category_ids = <<>>) }

MetaRows(d, provider, item_id) ==
    { r \in d.tbl_product_meta : r.provider = provider /\ r.item_id = item_id }

\* INSERT INTO tbl_product_tag for each tag in order; UNIQUE(meta_id, tag).
RECURSIVE InsertProductTags(_, _, _, _, _, _)
InsertProductTags(d, meta_id, tags, k, base, fail_at) ==
    IF k > Len(tags) THEN [ ok |-> TRUE, db |-> d ]
    ELSE IF fail_at = base + k
            \/ [ meta_id |-> meta_id, tag |-> tags[k] ] \in Range(d.tbl_product_tag)
    THEN [ ok |-> FALSE, db |-> d ]
    ELSE InsertProductTags(
            [d EXCEPT !.tbl_product_tag =
                Append(@, [ meta_id |-> meta_id, tag |-> tags[k] ])],
            meta_id, tags, k + 1, base, fail_at)

\* INSERT INTO tbl_product_category for each id in order; UNIQUE(meta_id,
\* category_id), and the foreign key to tbl_category when enforced.
RECURSIVE InsertProductCategories(_, _, _, _, _, _, _)
InsertProductCategories(d, fk, meta_id, ids, k, base, fail_at) ==
    IF k > Len(ids) THEN [ ok |-> TRUE, db |-> d ]
    ELSE IF \/ fail_at = base + k
            \/ [ meta_id |-> meta_id, category_id |-> ids[k] ]
                    \in Range(d.tbl_product_category)
            \/ (fk /\ ids[k] \notin { c.id : c \in d.tbl_category })
    THEN [ ok |-> FALSE, db |-> d ]
    ELSE InsertProductCategories(
            [d EXCEPT !.tbl_product_category =
                Append(@, [ meta_id |-> meta_id, category_id |-> ids[k] ])],
            fk, meta_id, ids, k + 1, base, fail_at)

\* A meta write that inserts a row whether or not one is stored for the key.
InsertProductMetaAlways(d, now, new_id, provider, item_id, input) ==
    [d EXCEPT !.tbl_product_meta = @ \cup
        { [ id |-> new_id, provider |-> provider, item_id |-> item_id,
            memo |-> input.memo, rating |-> input.rating, created_at |-> now,
            updated_at |-> now ] }]

\* The meta write: UPDATE of memo, url, rating and updated_at when the
\* SELECT found a row for (provider, item_id), INSERT of a new row otherwise.
WriteProductMeta(d, now, new_id, provider, item_id, input) ==
    LET existing == MetaRows(d, provider, item_id)
    IN  IF existing # {}
        THEN [d EXCEPT !.tbl_product_meta = (@ \ existing) \cup
                { [r EXCEPT !.memo = input.memo, !.rating = input.rating,
                            !.updated_at = now] : r \in existing }]
        ELSE [d EXCEPT !.tbl_product_meta = @ \cup
                { [ id |-> new_id, provider |-> provider, item_id |-> item_id,
                    memo |-> input.memo, rating |-> input.rating,
                    created_at |-> now, updated_at |-> now ] }]

\* The statements of save_product_meta's transaction, with n tags and m
\* category ids: 1 the meta UPDATE or INSERT, 2 the tag DELETE, 2+k tag k,
\* n+3 the category DELETE, n+3+k category k, n+m+4 the commit; n+m+5 is
\* the get_product_meta that reads the saved row back after the commit.
MetaSteps(input) == Len(input.tags) + Len(input.category_ids) + 5

SaveProductMetaTx(d, fk, now, new_id, provider, item_id, input, fail_at) ==
    LET n  == Len(input.tags)
        m  == Len(input.category_ids)
        existing == MetaRows(d, provider, item_id)
        meta_id == IF existing # {} THEN (CHOOSE r \in existing : TRUE).id
                   ELSE new_id
        d1 == WriteProductMeta(d, now, new_id, provider, item_id, input)
        d2 == [d1 EXCEPT !.tbl_product_tag =
                SelectSeq(@, LAMBDA t : t.meta_id # meta_id)]
        t  == InsertProductTags(d2, meta_id, input.tags, 1, 2, fail_at)
        d3 == [t.db EXCEPT !.tbl_product_category =
                SelectSeq(@, LAMBDA c : c.meta_id # meta_id)]
        c  == InsertProductCategories(d3, fk, meta_id, input.category_ids, 1,
                                      n + 3, fail_at)
    IN  IF fail_at = 1 \/ ~RatingOk(input) THEN [ ok |-> FALSE, db |-> d ]
        ELSE IF fail_at = 2 THEN [ ok |-> FALSE, db |-> d1 ]
        ELSE IF ~t.ok THEN [ ok |-> FALSE, db |-> t.db ]
        ELSE IF fail_at = n + 3 THEN [ ok |-> FALSE, db |-> t.db ]
        ELSE IF ~c.ok THEN [ ok |-> FALSE, db |-> c.db ]
        ELSE [ ok |-> fail_at # n + m + 4, db |-> c.db ]

\* get_product_meta's answer: None, or the meta row with its tags (ORDER BY
\* tag) and the categories its links reach through the INNER JOIN with
\* tbl_category (ORDER BY name).
GetProductMeta(d, provider, item_id) ==
    { [ id |-> r.id, memo |-> r.memo, rating |-> r.rating,
        tags |-> SortSeq(
            [ k \in DOMAIN SelectSeq(d.tbl_product_tag,
                                     LAMBDA t : t.meta_id = r.id) |->
                SelectSeq(d.tbl_product_tag, LAMBDA t : t.meta_id = r.id)[k].tag ],
            LAMBDA a, b : a < b),
        categories |-> SortSeq(
            [ k \in DOMAIN SelectSeq(d.tbl_product_category,
                    LAMBDA c : c.meta_id = r.id
                        /\ c.category_id \in { x.id : x \in d.tbl_category }) |->
                SelectSeq(d.tbl_product_category,
                    LAMBDA c : c.meta_id = r.id
                        /\ c.category_id \in { x.id : x \in d.tbl_category })[k]
                    .category_id ],
            LAMBDA a, b : a < b) ]
      : r \in MetaRows(d, provider, item_id) }

\* delete_product_meta: one DELETE on a fresh connection; the cascades of
\* tbl_product_tag and tbl_product_category act when foreign keys are
\* enforced.
DeleteProductMetaRows(d, fk, provider, item_id) ==
    LET ids == { r.id : r \in MetaRows(d, provider, item_id) }
        d1  == [d EXCEPT !.tbl_product_meta = @ \ MetaRows(d, provider, item_id)]
    IN  IF ~fk THEN d1
        ELSE [d1 EXCEPT
                !.tbl_product_tag = SelectSeq(@, LAMBDA t : t.meta_id \notin ids),
                !.tbl_product_category =
                    SelectSeq(@, LAMBDA c : c.meta_id \notin ids)]

\* delete_category: one DELETE on a fresh connection, with the cascade of
\* tbl_product_category when foreign keys are enforced.
DeleteCategoryRows(d, fk, category_id) ==
    LET d1 == [d EXCEPT !.tbl_category = { c \in @ : c.id # category_id }]
    IN  IF ~fk THEN d1
        ELSE [d1 EXCEPT !.tbl_product_category =
                SelectSeq(@, LAMBDA c : c.category_id # category_id)]

\* ------------------------------------------------------ schema manager
\* A storage file, as the schema manager sees it: the tables and indexes it
\* holds, the columns of the two tables that migrate_coupang_tables alters,
\* the rows of tbl_category and the rows of those two tables.  A row is a
\* function from the table's columns to Option values ({} is NULL).
AllTables ==
    { "tbl_setting", "tbl_user", "tbl_credential", "tbl_naver_payment",
      "tbl_naver_payment_item", "tbl_coupang_payment",
      "tbl_coupang_payment_item", "tbl_ledger_account", "tbl_ledger_entry",
      "tbl_ledger_tag", "tbl_ledger_history", "tbl_category",
      "tbl_product_meta", "tbl_product_tag", "tbl_product_category" }

\* The table of each index of the batch.
IndexTable ==
    [ idx_credential_user_id |-> "tbl_credential",
      ux_naver_payment_user_pay |-> "tbl_naver_payment",
      ux_naver_payment_item_payment_line |-> "tbl_naver_payment_item",
      ux_coupang_payment_user_order |-> "tbl_coupang_payment",
      ux_coupang_payment_item_payment_line |-> "tbl_coupang_payment_item",
      idx_ledger_entry_account_id |-> "tbl_ledger_entry",
      idx_ledger_entry_date |-> "tbl_ledger_entry",
      idx_ledger_tag_entry_id |-> "tbl_ledger_tag",
      idx_ledger_history_entry_id |-> "tbl_ledger_history",
      idx_product_meta_provider_item |-> "tbl_product_meta",
      idx_product_tag_meta_id |-> "tbl_product_tag",
      idx_product_tag_tag |-> "tbl_product_tag",
      idx_product_category_meta_id |-> "tbl_product_category",
      idx_product_category_category_id |-> "tbl_product_category" ]

AllIndexes == DOMAIN IndexTable

MigratedTables == {"tbl_coupang_payment", "tbl_coupang_payment_item"}

\* The columns migrate_coupang_tables adds, in its order.  For the payment
\* table total_cancel_amount stands for the columns declared DEFAULT 0 and
\* paid_at for paid_at and main_pay_type; for the item table product_id
\* stands for the TEXT columns, discounted_unit_price for the INTEGER ones.
LaterColumns ==
    [ tbl_coupang_payment |->
        <<"paid_at", "total_order_amount", "total_cancel_amount">>,
      tbl_coupang_payment_item |-> <<"product_id", "discounted_unit_price">> ]

\* The columns of the two tables that no migration adds (representatives).
BaseColumns ==
    [ tbl_coupang_payment |-> {"id", "user_id", "order_id", "total_amount"},
      tbl_coupang_payment_item |-> {"id", "payment_id", "line_no", "quantity"} ]

\* The value an ALTER TABLE ADD COLUMN gives the existing rows.
ColumnDefault(col) == IF col = "total_cancel_amount" THEN {0} ELSE {}

\* A file that Connection::open has just created: no table.
EmptyStore ==
    [ tables |-> {}, indexes |-> {},
      columns |-> [ t \in MigratedTables |-> {} ],
      rows |-> [ t \in MigratedTables |-> {} ],
      tbl_category |-> {} ]

\* execute_batch: CREATE TABLE IF NOT EXISTS and CREATE INDEX IF NOT EXISTS
\* for every table and index; a table that exists keeps its columns.
CreateSchema(st) ==
    [st EXCEPT
        !.tables = AllTables,
        !.indexes = AllIndexes,
        !.columns = [ t \in MigratedTables |->
                        IF t \in st.tables THEN st.columns[t]
                        ELSE BaseColumns[t] \cup Range(LaterColumns[t]) ]]

\* An ADD COLUMN that rebuilt the table and lost its rows.
AddColumnDroppingRows(st, t, col) ==
    IF col \in st.columns[t] THEN st
    ELSE [st EXCEPT !.columns[t] = @ \cup {col}, !.rows[t] = {}]

\* ALTER TABLE t ADD COLUMN col: an error when the column exists, which
\* migrate_coupang_tables discards (let _ =).
AddColumn(st, t, col) ==
    IF col \in st.columns[t] THEN st
    ELSE [st EXCEPT
            !.columns[t] = @ \cup {col},
            !.rows[t] = { [ c \in DOMAIN r \cup {col} |->
                              IF c = col THEN ColumnDefault(col) ELSE r[c] ]
                          : r \in @ }]

\* conn.execute of one ALTER TABLE ADD COLUMN.  faults are the columns whose
\* statement fails for a reason other than the column existing (the file is
\* locked by another connection, the disk is full).
AlterTableAddColumn(st, t, col, faults) ==
    IF col \in st.columns[t]
    THEN [ ok |-> FALSE, error |-> "duplicate column name", store |-> st ]
    ELSE IF col \in faults
    THEN [ ok |-> FALSE, error |-> "other", store |-> st ]
    ELSE [ ok |-> TRUE, error |-> "", store |-> AddColumn(st, t, col) ]

\* The loop over the columns of one table: let _ = conn.execute(..) drops
\* the Result of each statement and goes on with the next column.
RECURSIVE AddColumns(_, _, _, _)
AddColumns(st, t, k, faults) ==
    IF k > Len(LaterColumns[t]) THEN st
    ELSE AddColumns(AlterTableAddColumn(st, t, LaterColumns[t][k], faults).store,
                    t, k + 1, faults)

\* migrate_coupang_tables under the given statement failures: always Ok(()).
MigrateCoupangTables(st, faults) ==
    [ ok |-> TRUE,
      store |-> AddColumns(AddColumns(st, "tbl_coupang_payment", 1, faults),
                           "tbl_coupang_payment_item", 1, faults) ]

migrate_coupang_tables(st) == MigrateCoupangTables(st, {}).store

\* A seeding with INSERT in place of INSERT OR IGNORE: an error when a
\* default category is already stored.
SeedWithPlainInsert(st) ==
    IF \E c \in CategoryIds : \E r \in st.tbl_category : r.id = c \/ r.name = c
    THEN [ ok |-> FALSE, store |-> st ]
    ELSE [ ok |-> TRUE,
           store |-> [st EXCEPT !.tbl_category =
                        @ \cup { DefaultCategory(c) : c \in CategoryIds }] ]

\* A seeding with INSERT OR REPLACE: the stored rows that share the id or
\* the name of a default category give way to the default row.
SeedReplacingRows(st) ==
    [ ok |-> TRUE,
      store |-> [st EXCEPT !.tbl_category =
                    { r \in @ : r.id \notin CategoryIds
                                 /\ r.name \notin CategoryIds }
                    \cup { DefaultCategory(c) : c \in CategoryIds }] ]

\* INSERT OR IGNORE of each default category: a row whose id or name is
\* already stored is skipped.  CategoryIds stands for the eight defaults.
seed_default_categories(st) ==
    [ ok |-> TRUE,
      store |-> [st EXCEPT !.tbl_category = @ \cup
                    { DefaultCategory(c) :
                        c \in { x \in CategoryIds :
                                 ~\E r \in st.tbl_category :
                                     r.id = x \/ r.name = x } }] ]

\* run_migrations on a file's content (None: the file does not exist and
\* Connection::open creates it).
run_migrations(file) ==
    LET st == IF file = {} THEN EmptyStore ELSE CHOOSE x \in file : TRUE
    IN  seed_default_categories(migrate_coupang_tables(CreateSchema(st)))

\* run_migrations when some ALTER statements fail for another reason:
\* migrate_coupang_tables(&conn)? propagates what that function returns.
RunMigrations(file, faults) ==
    LET st == IF file = {} THEN EmptyStore ELSE CHOOSE x \in file : TRUE
        m == MigrateCoupangTables(CreateSchema(st), faults)
    IN  IF m.ok THEN seed_default_categories(m.store)
        ELSE [ ok |-> FALSE, store |-> m.store ]

\* The ALTER statements of a run that fail, by their error.
AlterErrors(file, faults, error) ==
    LET st == IF file = {} THEN EmptyStore ELSE CHOOSE x \in file : TRUE
    IN  { col \in UNION { Range(LaterColumns[t]) : t \in MigratedTables } :
            \E t \in MigratedTables :
                /\ col \in Range(LaterColumns[t])
                /\ AlterTableAddColumn(CreateSchema(st), t, col, faults).error
                        = error }

\* The stores an installation may hold when the program starts: created by
\* this or an older version (without the ledger and product tables, or
\* without some of the later columns), some default categories deleted,
\* with or without a row in the migrated tables.
CoreTables ==
    { "tbl_setting", "tbl_user", "tbl_credential", "tbl_naver_payment",
      "tbl_naver_payment_item", "tbl_coupang_payment",
      "tbl_coupang_payment_item" }

Stores ==
    { [ tables |-> ts,
        indexes |-> { x \in AllIndexes : IndexTable[x] \in ts },
        columns |-> [ t \in MigratedTables |-> BaseColumns[t] \cup
                        (IF t = "tbl_coupang_payment" THEN lp ELSE li) ],
        rows |-> [ t \in MigratedTables |->
                    IF t \in full THEN
                        { [ c \in BaseColumns[t] \cup
                                (IF t = "tbl_coupang_payment" THEN lp ELSE li)
                              |-> {1} ] }
                    ELSE {} ],
        tbl_category |-> IF "tbl_category" \in ts
                         THEN { DefaultCategory(c) : c \in cats }
                         ELSE {} ] :
      ts \in {AllTables, CoreTables},
      lp \in SUBSET Range(LaterColumns["tbl_coupang_payment"]),
      li \in SUBSET Range(LaterColumns["tbl_coupang_payment_item"]),
      full \in {{}, MigratedTables},
      cats \in SUBSET CategoryIds }

\* default_db_path: the file sodam.db under the application data directory.
default_db_path == 1

\* AppState.db_path, the preference file written by save_config_path
\* (exists, its "dbPath" with the empty string as None, and truncated when
\* a write that failed left it without its JSON text) and the storage
\* files by path (None: no file).  The data specifications run with one
\* configured file whose rows are db; app then does not change.
ConfiguredApp ==
    [ relay |-> 0, db_path |-> {default_db_path},
      config |-> [ exists |-> TRUE, dbPath |-> {default_db_path}, truncated |-> FALSE ],
      files |-> [ p \in Paths |->
                    IF p = default_db_path THEN {run_migrations({}).store}
                    ELSE {} ] ]

\* load_config_path returns an error when the preference file exists and
\* its text does not parse.
LoadConfigError(a) == a.config.exists /\ a.config.truncated

\* configured_db_path: the path in memory, else the preference file's.
configured_db_path(a) ==
    IF a.db_path # {} THEN a.db_path
    ELSE IF a.config.exists /\ ~a.config.truncated THEN a.config.dbPath
    ELSE {}

\* The file at an Option path (None: without a path or without a file).
FileAt(a, path) == IF path = {} THEN {} ELSE a.files[CHOOSE p \in path : TRUE]

\* Every storage command starts with configured_db_path (an error when it
\* is None) and the test that the file exists.  From Init a configured path
\* is always in memory and its file exists, so the commands guarded by
\* Configured leave app as it is.
Configured == FileAt(app, configured_db_path(app)) # {}

\* An opening of the file that also cleared every ledger password.
OpenedResettingPasswords(d, file) ==
    IF file = {} THEN d
    ELSE [d EXCEPT
            !.tbl_category = (CHOOSE st \in file : TRUE).tbl_category,
            !.tbl_ledger_account =
                { [a EXCEPT !.password_hash = {}, !.password_expires_at = {}]
                  : a \in @ }]

\* The rows a command reads through db once the file is the configured
\* one: the category rows are the file's.
Opened(d, file) ==
    IF file = {} THEN d
    ELSE [d EXCEPT !.tbl_category = (CHOOSE st \in file : TRUE).tbl_category]

\* =============================================================== actions
\* Every command runs against the configured, existing storage file (the
\* state after init_db).  `last` records the command that ran last: its
\* name, whether it returned Ok, and its arguments.  `steps` counts the
\* commands run so far; a behaviour runs at most `budget` of them.
Init ==
    /\ db = EmptyDb
    /\ last = [ op |-> "init", ok |-> TRUE ]
    /\ clock = 0
    /\ foreign_keys \in BOOLEAN
    /\ uuid = [ user |-> 0, account |-> 0, entry |-> 0, meta |-> 0, category |-> 0 ]
    /\ steps = 0
    /\ app = ConfiguredApp

\* A relay call that kept the db_path mutex of AppState while it runs.
RelayHoldingDbPath == {"db_path"}

\* What a relay call in progress holds of what the commands need (the
\* db_path mutex, a connection to the storage file, a transaction on it):
\* proxy_request takes neither the AppState nor the AppHandle and opens no
\* Connection; its transfer runs on a thread of the blocking pool.
RelayHolds == {}

\* A command waits while something it needs is held by a relay call.
Unblocked == app.relay = 0 \/ RelayHolds = {}

\* One more command has run to completion.
Step(budget) == Unblocked /\ steps < budget /\ steps' = steps + 1

\* Time passes between two commands.
Tick(bound) ==
    /\ clock < bound
    /\ clock' = clock + 1
    /\ UNCHANGED <<db, last, foreign_keys, uuid, steps, app>>

\* What `last` keeps of a sync: of a failed one the failing statement, of a
\* successful one the arguments and whether the same call had just succeeded.
SyncRecord(op, r, user_id, payment, fail_at) ==
    IF r.ok
    THEN [ op |-> op, ok |-> TRUE, user_id |-> user_id, payment |-> payment,
           fail_at |-> fail_at,
           repeat |-> last.op = op /\ last.ok /\ last.user_id = user_id
                      /\ last.payment = payment ]
    ELSE [ op |-> op, ok |-> FALSE, user_id |-> user_id, payment |-> payment,
           fail_at |-> fail_at, repeat |-> FALSE ]

save_account(provider, curl, headers, fail_at, budget) ==
    /\ Step(budget)
    /\ Configured
    /\ uuid.user < MaxUsers
    /\ fail_at <= Len(headers) + 1
    /\ LET id == uuid.user + 1
           r  == SaveAccountRun(db, clock, id, provider, curl, headers, fail_at)
       IN  /\ db' = r.db
           /\ uuid' = [uuid EXCEPT !.user = IF fail_at = 1 THEN @ ELSE id]
           /\ last' = [ op |-> "save_account", ok |-> r.ok, user_id |-> id,
                        headers |-> headers, fail_at |-> fail_at ]
    /\ UNCHANGED <<app, clock, foreign_keys>>

\* The keys stored for the owner that the map does not have.
RemovedKeys(d, user_id, headers) ==
    { c.key : c \in { x \in Range(d.tbl_credential) : x.user_id = user_id } }
        \ { h.key : h \in Range(headers) }

update_account_credentials(user_id, curl, headers, fail_at, budget) ==
    /\ Step(budget)
    /\ Configured
    /\ fail_at <= Len(headers) + 2
    /\ LET r == UpdateCredentialsRun(db, foreign_keys, clock, user_id, curl,
                                     headers, fail_at)
       IN  /\ db' = r.db
           /\ last' = [ op |-> "update_account_credentials", ok |-> r.ok,
                        user_id |-> user_id, headers |-> headers,
                        fail_at |-> fail_at,
                        removed |-> RemovedKeys(db, user_id, headers) ]
    /\ UNCHANGED <<app, clock, foreign_keys, uuid>>

delete_user(id, budget) ==
    /\ Step(budget)
    /\ Configured
    /\ db' = DeleteUserRows(db, foreign_keys, id)
    /\ last' = [ op |-> "delete_user", ok |-> TRUE, user_id |-> id ]
    /\ UNCHANGED <<app, clock, foreign_keys, uuid>>

save_naver_payment(user_id, payment, fail_at, budget) ==
    /\ Step(budget)
    /\ Configured
    /\ fail_at <= SyncSteps(payment)
    /\ LET r == SaveNaverPaymentTx(db, foreign_keys, clock, user_id, payment, fail_at)
       IN  /\ db' = TxResult(db, r)
           /\ last' = SyncRecord("save_naver_payment", r, user_id, payment, fail_at)
    /\ UNCHANGED <<app, clock, foreign_keys, uuid>>

save_coupang_payment(user_id, payment, fail_at, budget) ==
    /\ Step(budget)
    /\ Configured
    /\ fail_at <= SyncSteps(payment)
    /\ LET r == SaveCoupangPaymentTx(db, foreign_keys, clock, user_id, payment, fail_at)
       IN  /\ db' = TxResult(db, r)
           /\ last' = SyncRecord("save_coupang_payment", r, user_id, payment, fail_at)
    /\ UNCHANGED <<app, clock, foreign_keys, uuid>>

\* ------------------------------------------------------- SpecSync
\* The storage after save_account has run once per owner id, each owner
\* with one credential.
RECURSIVE WithOwners(_, _)
WithOwners(d, n) ==
    IF n = 0 THEN d
    ELSE SaveAccountRun(WithOwners(d, n - 1), 0, n, "naver", 1,
                        <<[key |-> 1, value |-> 1]>>, 0).db

InitOwners ==
    /\ db = WithOwners(EmptyDb, MaxUsers)
    /\ last = [ op |-> "save_account", ok |-> TRUE, user_id |-> MaxUsers,
                headers |-> <<[key |-> 1, value |-> 1]>>, fail_at |-> 0 ]
    /\ clock = 0
    /\ foreign_keys \in BOOLEAN
    /\ uuid = [ user |-> MaxUsers, account |-> 0, entry |-> 0, meta |-> 0, category |-> 0 ]
    /\ steps = 0
    /\ app = ConfiguredApp

\* Both providers' syncs and owner deletion, without storage faults.
NextSync ==
    \/ Tick(MaxClock)
    \/ \E u \in UserIds : delete_user(u, MaxSteps)
    \/ \E u \in UserIds, p \in Payments : save_naver_payment(u, p, 0, MaxSteps)
    \/ \E u \in UserIds, p \in Payments : save_coupang_payment(u, p, 0, MaxSteps)

SpecSync == InitOwners /\ [][NextSync]_vars

\* The same commands with a storage error at any statement of a sync.
NextSyncFault ==
    \/ Tick(MaxClock)
    \/ \E u \in UserIds : delete_user(u, MaxFaultSteps)
    \/ \E u \in UserIds, p \in Payments, f \in 0..(MaxItems + 3) :
            save_naver_payment(u, p, f, MaxFaultSteps)
    \/ \E u \in UserIds, p \in Payments, f \in 0..(MaxItems + 3) :
            save_coupang_payment(u, p, f, MaxFaultSteps)

SpecSyncFault == InitOwners /\ [][NextSyncFault]_vars

\* ------------------------------------------------------- SpecLedger
\* The statements of an entry command, the commit included.
CreateSteps(e) == Len(e.tags) + 4
UpdateSteps(e) == Len(e.tags) + 6
DeleteSteps == 4

create_ledger_account(password, budget) ==
    /\ Step(budget)
    /\ Configured
    /\ uuid.account < MaxAccounts
    /\ LET id == uuid.account + 1
       IN  /\ db' = CreateLedgerAccountRun(db, clock, id, password)
           /\ uuid' = [uuid EXCEPT !.account = id]
           /\ last' = [ op |-> "create_ledger_account", ok |-> TRUE,
                        account_id |-> id ]
    /\ UNCHANGED <<app, clock, foreign_keys>>

\* The commands that run the expiry check on their connection and then only
\* read: list_ledger_accounts, check_password_expiry, list_ledger_entries,
\* get_ledger_entry, list_ledger_history.
ReadOps ==
    { "list_ledger_accounts", "check_password_expiry", "list_ledger_entries",
      "get_ledger_entry", "list_ledger_history" }

ledger_read(op, budget) ==
    /\ Step(budget)
    /\ Configured
    /\ db' = check_and_reset_expired_passwords(db, clock)
    /\ last' = [ op |-> op, ok |-> TRUE,
                 expired |-> { a.id : a \in ExpiredAccounts(db, clock) },
                 accounts |-> IF op = "list_ledger_accounts"
                              THEN ListLedgerAccounts(db, clock) ELSE {} ]
    /\ UNCHANGED <<app, clock, foreign_keys, uuid>>

\* verify_ledger_password: the expiry check, then the stored hash is read;
\* an absent account is an error (query_row finds no row).
verify_ledger_password(account_id, password, budget) ==
    /\ Step(budget)
    /\ Configured
    /\ db' = check_and_reset_expired_passwords(db, clock)
    /\ last' = [ op |-> "verify_ledger_password",
                 ok |-> account_id \in LedgerAccountIds(db),
                 account_id |-> account_id, password |-> password,
                 expired |-> { a.id : a \in ExpiredAccounts(db, clock) },
                 result |-> VerifyLedgerPassword(db, clock, account_id,
                                                 password) ]
    /\ UNCHANGED <<app, clock, foreign_keys, uuid>>

update_ledger_password(account_id, password, budget) ==
    /\ Step(budget)
    /\ Configured
    /\ db' = UpdateLedgerPasswordRun(db, clock, account_id, password)
    /\ last' = [ op |-> "update_ledger_password", ok |-> TRUE,
                 account_id |-> account_id ]
    /\ UNCHANGED <<app, clock, foreign_keys, uuid>>

delete_ledger_account(account_id, budget) ==
    /\ Step(budget)
    /\ Configured
    /\ db' = DeleteLedgerAccountRun(db, foreign_keys, account_id)
    /\ last' = [ op |-> "delete_ledger_account", ok |-> TRUE,
                 account_id |-> account_id ]
    /\ UNCHANGED <<app, clock, foreign_keys, uuid>>

\* A failed create leaves nothing of its uuid behind, so the id counter
\* advances on success only.
create_ledger_entry(account_id, entry, fail_at, budget) ==
    /\ Step(budget)
    /\ Configured
    /\ uuid.entry < MaxEntries
    /\ fail_at <= CreateSteps(entry)
    /\ LET id == uuid.entry + 1
           r  == CreateLedgerEntryTx(db, foreign_keys, clock, id, account_id,
                                     entry, fail_at)
       IN  /\ db' = TxResult(db, r)
           /\ uuid' = [uuid EXCEPT !.entry = IF r.ok THEN id ELSE @]
           /\ last' = [ op |-> "create_ledger_entry", ok |-> r.ok,
                        entry_id |-> id, account_id |-> account_id,
                        entry |-> entry, fail_at |-> fail_at ]
    /\ UNCHANGED <<app, clock, foreign_keys>>

update_ledger_entry(entry_id, account_id, entry, fail_at, budget) ==
    /\ Step(budget)
    /\ Configured
    /\ fail_at <= UpdateSteps(entry)
    /\ LET r == UpdateLedgerEntryTx(db, foreign_keys, clock, entry_id,
                                    account_id, entry, fail_at)
       IN  /\ db' = TxResult(db, r)
           /\ last' = [ op |-> "update_ledger_entry", ok |-> r.ok,
                        entry_id |-> entry_id, account_id |-> account_id,
                        entry |-> entry, fail_at |-> fail_at ]
    /\ UNCHANGED <<app, clock, foreign_keys, uuid>>

delete_ledger_entry(entry_id, fail_at, budget) ==
    /\ Step(budget)
    /\ Configured
    /\ fail_at <= DeleteSteps
    /\ LET r == DeleteLedgerEntryTx(db, foreign_keys, clock, entry_id, fail_at)
       IN  /\ db' = TxResult(db, r)
           /\ last' = [ op |-> "delete_ledger_entry", ok |-> r.ok,
                        entry_id |-> entry_id, fail_at |-> fail_at ]
    /\ UNCHANGED <<app, clock, foreign_keys, uuid>>

\* The ledger commands without storage faults.
NextLedger ==
    \/ Tick(MaxLedgerClock)
    \/ \E pw \in {{}} \cup { {p} : p \in Passwords } :
            create_ledger_account(pw, MaxLedgerSteps)
    \/ \E op \in ReadOps : ledger_read(op, MaxLedgerSteps)
    \/ \E a \in AccountIds, p \in SuppliedPasswords :
            verify_ledger_password(a, p, MaxLedgerSteps)
    \/ \E a \in AccountIds, p \in Passwords :
            update_ledger_password(a, p, MaxLedgerSteps)
    \/ \E a \in AccountIds : delete_ledger_account(a, MaxLedgerSteps)
    \/ \E a \in AccountIds, e \in EntryInputs :
            create_ledger_entry(a, e, 0, MaxLedgerSteps)
    \/ \E i \in EntryIds, a \in AccountIds, e \in EntryInputs :
            update_ledger_entry(i, a, e, 0, MaxLedgerSteps)
    \/ \E i \in EntryIds : delete_ledger_entry(i, 0, MaxLedgerSteps)

SpecLedger == Init /\ [][NextLedger]_vars

\* The entry commands with a storage error at any of their statements.
NextLedgerFault ==
    \/ Tick(MaxClock)
    \/ \E pw \in {{}} \cup { {p} : p \in Passwords } :
            create_ledger_account(pw, MaxLedgerFaultSteps)
    \/ \E a \in AccountIds, e \in { x \in EntryInputs : x.val = 1 },
          f \in 0..(MaxTags + 4) :
            create_ledger_entry(a, e, f, MaxLedgerFaultSteps)
    \/ \E i \in EntryIds, e \in { x \in EntryInputs : x.val = 1 },
          f \in 0..(MaxTags + 6) :
            update_ledger_entry(i, 1, e, f, MaxLedgerFaultSteps)
    \/ \E i \in EntryIds, f \in 0..DeleteSteps :
            delete_ledger_entry(i, f, MaxLedgerFaultSteps)

SpecLedgerFault == Init /\ [][NextLedgerFault]_vars

\* --------------------------------------------------------- SpecMeta
\* save_product_meta: the transaction, then the read-back of the saved row
\* on a new connection; an error of the read-back is returned after the
\* commit.
save_product_meta(provider, item_id, input, fail_at, budget) ==
    /\ Step(budget)
    /\ Configured
    /\ uuid.meta < MaxMetas \/ MetaRows(db, provider, item_id) # {}
    /\ fail_at <= MetaSteps(input)
    /\ LET id == uuid.meta + 1
           r  == SaveProductMetaTx(db, foreign_keys, clock, id, provider,
                                   item_id, input, fail_at)
       IN  /\ db' = TxResult(db, r)
           /\ uuid' = [uuid EXCEPT !.meta =
                        IF r.ok /\ MetaRows(db, provider, item_id) = {}
                        THEN id ELSE @]
           /\ last' = [ op |-> "save_product_meta",
                        ok |-> r.ok /\ fail_at # MetaSteps(input)
                                /\ GetProductMeta(db', provider, item_id) # {},
                        provider |-> provider, item_id |-> item_id,
                        input |-> input, fail_at |-> fail_at,
                        repeat |-> /\ last.op = "save_product_meta" /\ last.ok
                                   /\ last.provider = provider
                                   /\ last.item_id = item_id
                                   /\ last.input = input ]
    /\ UNCHANGED <<app, clock, foreign_keys>>

delete_product_meta(provider, item_id, budget) ==
    /\ Step(budget)
    /\ Configured
    /\ db' = DeleteProductMetaRows(db, foreign_keys, provider, item_id)
    /\ last' = [ op |-> "delete_product_meta", ok |-> TRUE,
                 provider |-> provider, item_id |-> item_id ]
    /\ UNCHANGED <<app, clock, foreign_keys, uuid>>

delete_category(category_id, budget) ==
    LET path == configured_db_path(app)
        file == FileAt(app, path)
        ok == file # {} /\ \A st \in file : "tbl_category" \in st.tables
    IN  /\ Step(budget)
        /\ db' = IF ok THEN DeleteCategoryRows(db, foreign_keys, category_id)
                 ELSE db
        /\ app' = [app EXCEPT
                     !.db_path = path,
                     !.files = [ p \in Paths |->
                        IF ok /\ p \in path
                        THEN { [st EXCEPT !.tbl_category =
                                    { r \in @ : r.id # category_id }]
                               : st \in @[p] }
                        ELSE @[p] ]]
        /\ last' = [ op |-> "delete_category", ok |-> ok,
                     category_id |-> category_id,
                     error |-> IF path = {} THEN "not_configured"
                               ELSE IF ok THEN "" ELSE "storage" ]
        /\ UNCHANGED <<clock, foreign_keys, uuid>>

\* create_category: INSERT of a row under a fresh uuid; an error when the
\* name is stored already (name is UNIQUE) or the table is absent.
create_category(name, color, budget) ==
    LET path == configured_db_path(app)
        file == FileAt(app, path)
        id == MaxCategory + uuid.category + 1
        ok == /\ file # {}
              /\ \A st \in file :
                    /\ "tbl_category" \in st.tables
                    /\ \A r \in st.tbl_category : r.name # name
        row == [ id |-> id, name |-> name, color |-> color ]
    IN  /\ Step(budget)
        /\ path # {}
        /\ id \in CustomCategoryIds
        /\ db' = IF ok THEN [db EXCEPT !.tbl_category = @ \cup {row}] ELSE db
        /\ app' = [app EXCEPT
                     !.db_path = path,
                     !.files = [ p \in Paths |->
                        IF ok /\ p \in path
                        THEN { [st EXCEPT !.tbl_category = @ \cup {row}]
                               : st \in @[p] }
                        ELSE @[p] ]]
        /\ uuid' = IF file # {} THEN [uuid EXCEPT !.category = @ + 1] ELSE uuid
        /\ last' = [ op |-> "create_category", ok |-> ok, category_id |-> id,
                     name |-> name, color |-> color ]
        /\ UNCHANGED <<clock, foreign_keys>>

\* The product-meta commands without storage faults.
NextMeta ==
    \/ Tick(MaxClock)
    \/ \E p \in MetaProviders, i \in MetaItemIds, x \in ProductMetaInputs :
            save_product_meta(p, i, x, 0, MaxMetaSteps)
    \/ \E p \in MetaProviders, i \in MetaItemIds :
            delete_product_meta(p, i, MaxMetaSteps)
    \/ \E c \in CategoryIds : delete_category(c, MaxMetaSteps)

SpecMeta == Init /\ [][NextMeta]_vars

\* The product-meta commands with a failing statement in the transaction
\* of save_product_meta (the commit included).
NextMetaFault ==
    \/ \E p \in MetaProviders, i \in MetaItemIds,
          x \in { y \in ProductMetaInputs :
                    y.memo = 1 \/ Len(y.tags) + Len(y.category_ids) <= 2 },
          f \in 0..(MaxTags + MaxCategories + 4) :
            /\ f < MetaSteps(x)
            /\ save_product_meta(p, i, x, f, MaxMetaFaultSteps)
    \/ \E p \in MetaProviders, i \in MetaItemIds :
            delete_product_meta(p, i, MaxMetaFaultSteps)
    \/ \E c \in CategoryIds : delete_category(c, MaxMetaFaultSteps)

SpecMetaFault == Init /\ [][NextMetaFault]_vars

\* Owners and their credentials, with a failing statement in the update
\* of an owner's credentials.
NextAccount ==
    \/ \E h \in HeaderMaps : save_account("naver", 1, h, 0, MaxAccountSteps)
    \/ \E u \in UserIds, c \in Vals, h \in HeaderMaps, f \in 0..(MaxKey + 2) :
            update_account_credentials(u, c, h, f, MaxAccountSteps)
    \/ \E u \in UserIds : delete_user(u, MaxAccountSteps)

SpecAccount == Init /\ [][NextAccount]_vars

\* -------------------------------------------------- storage file commands
\* The program has just started: nothing in memory, the preference file as
\* an earlier run left it, one file possibly present.
InitStore ==
    /\ db = EmptyDb
    /\ last = [ op |-> "init", ok |-> TRUE ]
    /\ clock = 0
    /\ foreign_keys \in BOOLEAN
    /\ uuid = [ user |-> 0, account |-> 0, entry |-> 0, meta |-> 0, category |-> 0 ]
    /\ steps = 0
    /\ \E file \in {{}} \cup { {st} : st \in Stores },
          config \in { [ exists |-> FALSE, dbPath |-> {}, truncated |-> FALSE ],
                       [ exists |-> TRUE, dbPath |-> {}, truncated |-> FALSE ],
                       [ exists |-> TRUE, dbPath |-> {default_db_path}, truncated |-> FALSE ] } :
            app = [ relay |-> 0, db_path |-> {}, config |-> config,
                    files |-> [ p \in Paths |->
                                 IF p = default_db_path THEN file ELSE {} ] ]

\* run_migrations on the file at target, then save_config_path and
\* set_db_path; a failed run_migrations returns before both.
OpenStore(a, target) ==
    LET r == run_migrations(a.files[target])
    IN  [ ok |-> r.ok,
          app |-> IF r.ok
                  THEN [ relay |-> a.relay, db_path |-> {target},
                         config |-> [ exists |-> TRUE, dbPath |-> {target}, truncated |-> FALSE ],
                         files |-> [a.files EXCEPT ![target] = {r.store}] ]
                  ELSE [a EXCEPT !.files[target] = {r.store}] ]

\* init_db(path): the given path or the default one.
init_db(path, budget) ==
    LET target == IF path = {} THEN default_db_path
                  ELSE CHOOSE p \in path : TRUE
        r == OpenStore(app, target)
    IN  /\ Step(budget)
        /\ app' = r.app
        /\ db' = IF r.ok THEN Opened(db, r.app.files[target]) ELSE db
        /\ last' = [ op |-> "init_db", ok |-> r.ok, path |-> target,
                     before |-> app.files[target] ]
        /\ UNCHANGED <<clock, foreign_keys, uuid>>

\* load_existing_db(path): an error when there is no file at the path.
load_existing_db(path, budget) ==
    LET r == OpenStore(app, path)
    IN  /\ Step(budget)
        /\ app' = IF app.files[path] = {} THEN app ELSE r.app
        /\ db' = IF app.files[path] # {} /\ r.ok
                 THEN Opened(db, r.app.files[path]) ELSE db
        /\ last' = [ op |-> "load_existing_db",
                     ok |-> app.files[path] # {} /\ r.ok, path |-> path,
                     before |-> app.files[path],
                     after_logout |-> last.op = "logout" /\ last.path = {path} ]
        /\ UNCHANGED <<clock, foreign_keys, uuid>>

\* load_existing_db on a file some of whose ALTER statements fail for
\* another reason than the column existing.
load_existing_db_alter_failing(path, faults, budget) ==
    LET file == app.files[path]
        r == RunMigrations(file, faults)
    IN  /\ Step(budget)
        /\ file # {}
        /\ app' = IF r.ok
                  THEN [ relay |-> app.relay, db_path |-> {path},
                         config |-> [ exists |-> TRUE, dbPath |-> {path}, truncated |-> FALSE ],
                         files |-> [app.files EXCEPT ![path] = {r.store}] ]
                  ELSE [app EXCEPT !.files[path] = {r.store}]
        /\ db' = IF r.ok THEN Opened(db, {r.store}) ELSE db
        /\ last' = [ op |-> "load_existing_db", ok |-> r.ok, path |-> path,
                     before |-> file, after_logout |-> FALSE,
                     duplicate |-> AlterErrors(file, faults,
                                               "duplicate column name"),
                     failed |-> AlterErrors(file, faults, "other") ]
        /\ UNCHANGED <<clock, foreign_keys, uuid>>

\* save_config_path(path) = fs::write of {"dbPath": path}: File::create,
\* which empties the file, then write_all.  fault "open": config_file or
\* File::create fails and the file is as before; fault "write": write_all
\* fails and leaves the emptied file.
save_config_path(a, path, fault) ==
    CASE fault = "open"  -> [ ok |-> FALSE, config |-> a.config ]
      [] fault = "write" -> [ ok |-> FALSE,
                              config |-> [ exists |-> TRUE, dbPath |-> {},
                                           truncated |-> TRUE ] ]
      [] OTHER -> [ ok |-> TRUE,
                    config |-> [ exists |-> TRUE, dbPath |-> {path}, truncated |-> FALSE ] ]

\* run_migrations(&target)?; save_config_path(..)?; set_db_path(..);
\* build_status(..) with a failure: in run_migrations (fault "migrate":
\* seed_default_categories(&conn)? returns an error after the tables and
\* columns are made), in save_config_path (fault "open" or "write"), or in
\* build_status (fault "status", list_tables failing after the path is set).
OpenStoreFailing(a, target, fault) ==
    LET file == a.files[target]
        st == IF file = {} THEN EmptyStore ELSE CHOOSE x \in file : TRUE
        r == run_migrations(file)
        w == save_config_path(a, target,
                              IF fault = "status" THEN "none" ELSE fault)
    IN  IF fault = "migrate"
        THEN [a EXCEPT !.files[target] =
                            {migrate_coupang_tables(CreateSchema(st))}]
        ELSE [ relay |-> a.relay,
               db_path |-> IF w.ok THEN {target} ELSE a.db_path,
               config |-> w.config,
               files |-> [a.files EXCEPT ![target] = {r.store}] ]

PreferenceFaults == {"open", "write"}
OpenFaults == PreferenceFaults \cup {"migrate", "status"}

init_db_failing(path, fault, budget) ==
    LET target == IF path = {} THEN default_db_path
                  ELSE CHOOSE p \in path : TRUE
    IN  /\ Step(budget)
        /\ app' = OpenStoreFailing(app, target, fault)
        /\ db' = Opened(db, FileAt(app', configured_db_path(app')))
        /\ last' = [ op |-> "init_db", ok |-> FALSE, path |-> target,
                     before |-> app.files[target], fault |-> fault ]
        /\ UNCHANGED <<clock, foreign_keys, uuid>>

load_existing_db_failing(path, fault, budget) ==
    /\ Step(budget)
    /\ app.files[path] # {}
    /\ app' = OpenStoreFailing(app, path, fault)
    /\ db' = Opened(db, FileAt(app', configured_db_path(app')))
    /\ last' = [ op |-> "load_existing_db", ok |-> FALSE, path |-> path,
                 before |-> app.files[path], after_logout |-> FALSE,
                 fault |-> fault ]
    /\ UNCHANGED <<clock, foreign_keys, uuid>>

\* A logout that cleared the path in memory and left the preference file.
LogoutKeepingPreference(a) == [a EXCEPT !.db_path = {}]

\* A logout that also removed the configured storage file.
LogoutRemovingFile(a) ==
    [ relay |-> a.relay, db_path |-> {},
      config |-> IF a.config.exists THEN [ exists |-> TRUE, dbPath |-> {}, truncated |-> FALSE ]
                 ELSE a.config,
      files |-> [ p \in Paths |-> IF p \in a.db_path THEN {} ELSE a.files[p] ] ]

\* logout: the path in memory becomes None and, when the preference file
\* exists, its "dbPath" the empty string.
Logout(a) ==
    [a EXCEPT
        !.db_path = {},
        !.config = IF a.config.exists THEN [ exists |-> TRUE, dbPath |-> {}, truncated |-> FALSE ]
                   ELSE @]

logout(budget) ==
    /\ Step(budget)
    /\ app' = Logout(app)
    /\ last' = [ op |-> "logout", ok |-> TRUE, path |-> app.db_path ]
    /\ UNCHANGED <<db, clock, foreign_keys, uuid>>

\* get_db_status: configured_db_path caches the path it read; when the file
\* exists run_migrations runs on it and its result is discarded.
get_db_status(budget) ==
    LET path == configured_db_path(app)
        file == FileAt(app, path)
    IN  /\ Step(budget)
        /\ app' = [app EXCEPT
                     !.db_path = path,
                     !.files = [ p \in Paths |->
                                  IF p \in path /\ file # {}
                                  THEN {run_migrations(file).store}
                                  ELSE @[p] ]]
        /\ db' = Opened(db, FileAt(app', path))
        /\ last' = [ op |-> "get_db_status",
                     ok |-> app.db_path # {} \/ ~LoadConfigError(app),
                     path |-> path,
                     before |-> file, configured |-> path # {} ]
        /\ UNCHANGED <<clock, foreign_keys, uuid>>

NextStore ==
    \/ \E path \in {{}} \cup { {p} : p \in Paths } : init_db(path, MaxStoreSteps)
    \/ \E p \in Paths : load_existing_db(p, MaxStoreSteps)
    \/ logout(MaxStoreSteps)
    \/ get_db_status(MaxStoreSteps)
    \/ \E c \in CategoryIds : delete_category(c, MaxStoreSteps)

SpecStore == InitStore /\ [][NextStore]_vars

\* The category rows a storage file can hold: default rows, default rows
\* whose name or color was changed in the file, rows of create_category;
\* id and name are each unique.
CategoryTables ==
    LET ids == CategoryIds \cup CustomCategoryIds
        cells == {<<>>} \cup (CategoryNames \X {{}, {1}, {MaxCategory + 1}})
    IN  { { [ id |-> i, name |-> f[i][1], color |-> f[i][2] ]
            : i \in { j \in ids : f[j] # <<>> } }
          : f \in { g \in [ids -> cells] :
                      \A i, j \in ids :
                          (i # j /\ g[i] # <<>> /\ g[j] # <<>>)
                              => g[i][1] # g[j][1] } }

\* A configured file of this version with any such category rows.
InitSeed ==
    /\ last = [ op |-> "init", ok |-> TRUE ]
    /\ clock = 0
    /\ foreign_keys \in BOOLEAN
    /\ steps = 0
    /\ \E rows \in CategoryTables :
          /\ db = [EmptyDb EXCEPT !.tbl_category = rows]
          /\ uuid = [ user |-> 0, account |-> 0, entry |-> 0, meta |-> 0,
                      category |-> Cardinality({ r \in rows :
                                        r.id \in CustomCategoryIds }) ]
          /\ app = [ConfiguredApp EXCEPT
                      !.files[default_db_path] =
                          { [st EXCEPT !.tbl_category = rows] : st \in @ }]

\* The schema-ensure commands among the category commands.
NextSeed ==
    \/ init_db({}, MaxSeedSteps)
    \/ load_existing_db(default_db_path, MaxSeedSteps)
    \/ get_db_status(MaxSeedSteps)
    \/ logout(MaxSeedSteps)
    \/ \E c \in CategoryIds \cup CustomCategoryIds :
            delete_category(c, MaxSeedSteps)
    \/ \E n \in CategoryNames, c \in {{}, {MaxCategory + 1}} :
            create_category(n, c, MaxSeedSteps)

SpecSeed == InitSeed /\ [][NextSeed]_vars

\* The storage file commands with statement failures in the migration.
NextStoreFault ==
    \/ \E p \in Paths,
          faults \in SUBSET { LaterColumns[t][1] : t \in MigratedTables } :
            load_existing_db_alter_failing(p, faults, MaxStoreFaultSteps)
    \/ \E path \in {{}} \cup { {p} : p \in Paths } :
            init_db(path, MaxStoreFaultSteps)
    \/ logout(MaxStoreFaultSteps)
    \/ get_db_status(MaxStoreFaultSteps)

SpecStoreFault == InitStore /\ [][NextStoreFault]_vars

\* The storage file commands with init_db and load_existing_db failing in
\* each of their steps: the missing file, run_migrations, save_config_path,
\* build_status.
NextOpenFault ==
    \/ \E path \in {{}} \cup { {p} : p \in Paths } :
            init_db(path, MaxOpenFaultSteps)
    \/ \E p \in Paths : load_existing_db(p, MaxOpenFaultSteps)
    \/ \E col \in Range(LaterColumns["tbl_coupang_payment"]) :
            load_existing_db_alter_failing(default_db_path, {col},
                                           MaxOpenFaultSteps)
    \/ \E path \in {{}} \cup { {p} : p \in Paths }, f \in OpenFaults :
            init_db_failing(path, f, MaxOpenFaultSteps)
    \/ \E p \in Paths, f \in OpenFaults :
            load_existing_db_failing(p, f, MaxOpenFaultSteps)
    \/ logout(MaxOpenFaultSteps)
    \/ get_db_status(MaxOpenFaultSteps)

\* A first start (no storage file), or a start on a file of this version
\* or of the version before the later columns.
InitOpenFault ==
    /\ InitStore
    /\ \A st \in app.files[default_db_path] :
            /\ st.tables = AllTables
            /\ st.tbl_category = { DefaultCategory(c) : c \in CategoryIds }
            /\ \A t \in MigratedTables :
                    /\ st.rows[t] = {}
                    /\ \/ st.columns[t] = BaseColumns[t]
                       \/ st.columns[t] = BaseColumns[t]
                                            \cup Range(LaterColumns[t])
            /\ (st.columns["tbl_coupang_payment"]
                    = BaseColumns["tbl_coupang_payment"])
                <=> (st.columns["tbl_coupang_payment_item"]
                        = BaseColumns["tbl_coupang_payment_item"])

SpecOpenFault == InitOpenFault /\ [][NextOpenFault]_vars

\* ------------------------------------------------------- table commands
\* A table name argument is a string; it is modelled as a sequence of
\* pieces: a space, a tab, a semicolon, the name of a stored table, a name
\* that is no table, and a WHERE clause written without a blank.
NamePieces ==
    { " ", "\t", ";", "tbl_user", "tbl_credential", "nosuch", "WHERE(1)" }

TableNames == SeqsUpTo(NamePieces, MaxNameLen)

\* str::contains(ch) for a one-character pattern.
Contains(name, ch) == \E i \in DOMAIN name : name[i] = ch

\* table_name.contains(' ') || table_name.contains(';').
NameRejected(name) == Contains(name, " ") \/ Contains(name, ";")

\* The characters SQLite's tokenizer skips between tokens.
Blank(piece) == piece \in {" ", "\t"}

\* The table that "<verb> FROM <name>" addresses when SQLite prepares it
\* as one statement: the name of a table alone, or followed by blanks and
\* a WHERE clause, blanks around it allowed; a statement ends at the first
\* semicolon and rusqlite's execute refuses a second statement after it.
StatementTables(name) ==
    LET semis == { i \in DOMAIN name : name[i] = ";" }
        end == IF semis = {} THEN Len(name)
               ELSE (CHOOSE i \in semis : \A j \in semis : i <= j) - 1
        tail_blank == \A i \in (end + 1)..Len(name) :
                            Blank(name[i]) \/ name[i] = ";"
    IN  { t \in {"tbl_user", "tbl_credential"} :
            /\ tail_blank
            /\ \E i \in 1..end :
                  /\ name[i] = t
                  /\ \A j \in 1..(i - 1) : Blank(name[j])
                  /\ \/ \A j \in (i + 1)..end : Blank(name[j])
                     \/ \E k \in (i + 2)..end :
                          /\ name[k] = "WHERE(1)"
                          /\ \A j \in ((i + 1)..end) \ {k} : Blank(name[j]) }

\* DELETE FROM t (with or without WHERE(1)): every row of t goes; for
\* tbl_user the cascades of each owner act as in delete_user.
RECURSIVE DeleteOwners(_, _, _)
DeleteOwners(d, fk, ids) ==
    IF ids = {} THEN d
    ELSE LET id == CHOOSE x \in ids : TRUE
         IN  DeleteOwners(DeleteUserRows(d, fk, id), fk, ids \ {id})

DeleteFrom(d, fk, t) ==
    IF t = "tbl_user" THEN DeleteOwners(d, fk, { u.id : u \in d.tbl_user })
    ELSE [d EXCEPT !.tbl_credential = <<>>]

\* truncate_table: the name check, then DELETE FROM <name>.
truncate_table(table_name, budget) ==
    LET ts == StatementTables(table_name)
        ok == ~NameRejected(table_name) /\ ts # {}
    IN  /\ Step(budget)
        /\ Configured
        /\ db' = IF ok THEN DeleteFrom(db, foreign_keys, CHOOSE t \in ts : TRUE)
                 ELSE db
        /\ last' = [ op |-> "truncate_table", ok |-> ok,
                     table_name |-> table_name,
                     error |-> IF NameRejected(table_name) THEN "validation"
                               ELSE IF ok THEN "" ELSE "sql" ]
        /\ UNCHANGED <<app, clock, foreign_keys, uuid>>

\* get_table_data: the name check, then three SELECT ... FROM <name>.
get_table_data(table_name, budget) ==
    LET ts == StatementTables(table_name)
        ok == ~NameRejected(table_name) /\ ts # {}
    IN  /\ Step(budget)
        /\ Configured
        /\ last' = [ op |-> "get_table_data", ok |-> ok,
                     table_name |-> table_name,
                     error |-> IF NameRejected(table_name) THEN "validation"
                               ELSE IF ok THEN "" ELSE "sql" ]
        /\ UNCHANGED <<db, app, clock, foreign_keys, uuid>>

\* The table commands on a storage with owners and credentials.
NextTables ==
    \/ \E n \in TableNames : truncate_table(n, MaxTableSteps)
    \/ \E n \in TableNames : get_table_data(n, MaxTableSteps)
    \/ \E u \in UserIds, h \in { x \in HeaderMaps : Len(x) = 1 } :
            update_account_credentials(u, 1, h, 0, MaxTableSteps)

SpecTables == InitOwners /\ [][NextTables]_vars

\* -------------------------------------------------------------- relay
\* proxy_request is called: the closure is handed to spawn_blocking and the
\* command awaits it.
proxy_request_call ==
    /\ app.relay < MaxRelay
    /\ app' = [app EXCEPT !.relay = @ + 1]
    /\ UNCHANGED <<db, last, clock, foreign_keys, uuid, steps>>

\* The transfer ends and proxy_request returns its ProxyResponse or the
\* error text.
proxy_request_return(ok) ==
    /\ app.relay > 0
    /\ app' = [app EXCEPT !.relay = @ - 1]
    /\ last' = [ op |-> "proxy_request", ok |-> ok ]
    /\ UNCHANGED <<db, clock, foreign_keys, uuid, steps>>

\* Relay calls among schema, owner, sync and journal commands.
NextRelay ==
    \/ proxy_request_call
    \/ \E ok \in BOOLEAN : proxy_request_return(ok)
    \/ init_db({}, MaxRelaySteps)
    \/ load_existing_db(default_db_path, MaxRelaySteps)
    \/ get_db_status(MaxRelaySteps)
    \/ \E h \in { x \in HeaderMaps : Len(x) = 1 /\ x[1].value = 1 } :
            save_account("naver", 1, h, 0, MaxRelaySteps)
    \/ \E p \in { x \in Payments : x.val = 1 /\ Len(x.lines) = 1 } :
            save_naver_payment(1, p, 0, MaxRelaySteps)
    \/ \E p \in { x \in Payments : x.val = 1 /\ Len(x.lines) = 1 } :
            save_coupang_payment(1, p, 0, MaxRelaySteps)
    \/ \E pw \in {{}} \cup { {p} : p \in Passwords } :
            create_ledger_account(pw, MaxRelaySteps)
    \/ \E e \in { x \in EntryInputs : ChecksPass(x) /\ x.val = 1 /\ Len(x.tags) <= 1 } :
            create_ledger_entry(1, e, 0, MaxRelaySteps)
    \/ \E e \in { x \in EntryInputs : ChecksPass(x) /\ x.val = 1 /\ Len(x.tags) <= 1 } :
            update_ledger_entry(1, 1, e, 0, MaxRelaySteps)
    \/ delete_ledger_entry(1, 0, MaxRelaySteps)
    \/ \E op \in ReadOps : ledger_read(op, MaxRelaySteps)

SpecRelay == Init /\ [][NextRelay]_vars

\* ----------------------------------------------------------- SpecSession
\* The commands that start with configured_db_path and return its
\* not-configured error (those modelled, and the reads that change
\* nothing).
StorageOps ==
    { "save_account", "update_account_credentials", "delete_user",
      "save_naver_payment", "save_coupang_payment", "create_ledger_account",
      "verify_ledger_password", "update_ledger_password",
      "delete_ledger_account", "create_ledger_entry", "update_ledger_entry",
      "delete_ledger_entry", "save_product_meta", "delete_product_meta",
      "create_category", "delete_category", "list_users", "get_table_data",
      "truncate_table" }
        \cup ReadOps

\* A storage command called while configured_db_path is None: it returns
\* the error before it opens a connection.
not_configured(op, budget) ==
    /\ Step(budget)
    /\ configured_db_path(app) = {}
    /\ last' = [ op |-> op, ok |-> FALSE, error |-> "not_configured" ]
    /\ UNCHANGED <<db, app, clock, foreign_keys, uuid>>

\* One storage file at the default path: logout and the commands that
\* configure it again, among commands of every group.
NextSession ==
    \/ Tick(MaxLedgerClock)
    \/ logout(MaxSessionSteps)
    \/ init_db({}, MaxSessionSteps)
    \/ load_existing_db(default_db_path, MaxSessionSteps)
    \/ get_db_status(MaxSessionSteps)
    \/ \E op \in StorageOps : not_configured(op, MaxSessionSteps)
    \/ \E h \in { x \in HeaderMaps : Len(x) = 1 /\ x[1].value = 1 } :
            save_account("naver", 1, h, 0, MaxSessionSteps)
    \/ \E u \in UserIds, h \in { x \in HeaderMaps : Len(x) <= 1 /\ \A k \in DOMAIN x : x[k].value = 1 } :
            update_account_credentials(u, 1, h, 0, MaxSessionSteps)
    \/ \E u \in UserIds : delete_user(u, MaxSessionSteps)
    \/ \E p \in { x \in Payments : x.val = 1 /\ Len(x.lines) = 1 } :
            save_naver_payment(1, p, 0, MaxSessionSteps)
    \/ \E p \in { x \in Payments : x.val = 1 /\ Len(x.lines) = 1 } :
            save_coupang_payment(1, p, 0, MaxSessionSteps)
    \/ \E pw \in {{}} \cup { {p} : p \in Passwords } :
            create_ledger_account(pw, MaxSessionSteps)
    \/ \E op \in ReadOps : ledger_read(op, MaxSessionSteps)
    \/ \E a \in AccountIds, p \in SuppliedPasswords :
            verify_ledger_password(a, p, MaxSessionSteps)
    \/ \E a \in AccountIds, p \in Passwords :
            update_ledger_password(a, p, MaxSessionSteps)
    \/ \E a \in AccountIds : delete_ledger_account(a, MaxSessionSteps)
    \/ \E e \in { x \in EntryInputs : ChecksPass(x) /\ x.val = 1 /\ Len(x.tags) <= 1 } :
            create_ledger_entry(1, e, 0, MaxSessionSteps)
    \/ \E e \in { x \in EntryInputs : ChecksPass(x) /\ x.val = 1 /\ Len(x.tags) <= 1 } :
            update_ledger_entry(1, 1, e, 0, MaxSessionSteps)
    \/ delete_ledger_entry(1, 0, MaxSessionSteps)
    \/ \E x \in { y \in ProductMetaInputs : RatingOk(y) /\ y.memo = 1
                        /\ Len(y.tags) + Len(y.category_ids) <= 1 } :
            save_product_meta("naver", 1, x, 0, MaxSessionSteps)
    \/ delete_product_meta("naver", 1, MaxSessionSteps)
    \/ \E c \in CategoryIds : delete_category(c, MaxSessionSteps)

SpecSession == Init /\ [][NextSession]_vars

\* ------------------------------------------------------------ SpecWrites
\* Every command that writes a table with a uniqueness constraint, on one
\* file, in any order.  The inputs are those of the other specifications
\* with one value for the columns outside the keys.
NextWrites ==
    \/ \E h \in { x \in HeaderMaps : \A k \in DOMAIN x : x[k].value = 1 } :
            save_account("naver", 1, h, 0, MaxWriteSteps)
    \/ \E u \in UserIds,
          h \in { x \in HeaderMaps : \A k \in DOMAIN x : x[k].value = 1 } :
            update_account_credentials(u, 1, h, 0, MaxWriteSteps)
    \/ \E u \in UserIds : delete_user(u, MaxWriteSteps)
    \/ \E u \in UserIds, p \in { x \in Payments : x.val = 1 } :
            save_naver_payment(u, p, 0, MaxWriteSteps)
    \/ \E u \in UserIds, p \in { x \in Payments : x.val = 1 } :
            save_coupang_payment(u, p, 0, MaxWriteSteps)
    \/ create_ledger_account({}, MaxWriteSteps)
    \/ \E a \in AccountIds,
          e \in { x \in EntryInputs :
                    ChecksPass(x) /\ x.val = 1 /\ x.platform = {} } :
            create_ledger_entry(a, e, 0, MaxWriteSteps)
    \/ \E i \in EntryIds,
          e \in { x \in EntryInputs :
                    ChecksPass(x) /\ x.val = 1 /\ x.platform = {} } :
            update_ledger_entry(i, 1, e, 0, MaxWriteSteps)
    \/ \E i \in EntryIds : delete_ledger_entry(i, 0, MaxWriteSteps)
    \/ \E pr \in MetaProviders, i \in MetaItemIds,
          x \in { y \in ProductMetaInputs :
                    RatingOk(y) /\ y.memo = 1 /\ Len(y.category_ids) <= 1 } :
            save_product_meta(pr, i, x, 0, MaxWriteSteps)
    \/ \E pr \in MetaProviders, i \in MetaItemIds :
            delete_product_meta(pr, i, MaxWriteSteps)

SpecWrites == Init /\ [][NextWrites]_vars

\* ================================================== claims: payment sync
SyncOps == {"save_naver_payment", "save_coupang_payment"}

HeadersOf(d, op) ==
    IF op = "save_naver_payment" THEN d.tbl_naver_payment
    ELSE d.tbl_coupang_payment

ItemsOf(d, op) ==
    IF op = "save_naver_payment" THEN d.tbl_naver_payment_item
    ELSE d.tbl_coupang_payment_item

ExtOf(op, r) == IF op = "save_naver_payment" THEN r.pay_id ELSE r.order_id

\* The header rows of (owner, external id) and the line items linked to them.
HeaderRows(d, op, u, ext) ==
    { r \in HeadersOf(d, op) : r.user_id = u /\ ExtOf(op, r) = ext }

LinkedItems(d, op, u, ext) ==
    { i \in ItemsOf(d, op) :
        i.payment_id \in { r.id : r \in HeaderRows(d, op, u, ext) } }

\* The command that just ran (in an action formula: the step is a command).
Ran(ops) == steps' = steps + 1 /\ last'.op \in ops

\* The sync that just ran repeated, with identical input, the sync that had
\* succeeded immediately before it.
SecondSync == Ran(SyncOps) /\ last'.ok /\ last'.repeat

NoUpdatedAt(rows) == { [r EXCEPT !.updated_at = 0] : r \in rows }

C2_SecondSyncChangesNothing ==
    [][ SecondSync =>
        LET op == last'.op
            u  == last'.user_id
            e  == last'.payment.ext
        IN  /\ HeaderRows(db', op, u, e) = HeaderRows(db, op, u, e)
            /\ LinkedItems(db', op, u, e) = LinkedItems(db, op, u, e)
      ]_vars

\* C2 amended: re-running a sync with identical input leaves the header row
\* and every line-item row with the same field values except updated_at,
\* which takes the time of the second call on the header and on the rows
\* of the payload's line numbers; no row is added or removed.
C2_SameButUpdatedAt ==
    [][ SecondSync =>
        LET op == last'.op
            u  == last'.user_id
            e  == last'.payment.ext
        IN  /\ NoUpdatedAt(HeaderRows(db', op, u, e))
                    = NoUpdatedAt(HeaderRows(db, op, u, e))
            /\ NoUpdatedAt(LinkedItems(db', op, u, e))
                    = NoUpdatedAt(LinkedItems(db, op, u, e))
            /\ Cardinality(LinkedItems(db', op, u, e))
                    = Cardinality(LinkedItems(db, op, u, e))
            /\ \A r \in HeaderRows(db', op, u, e) : r.updated_at = clock
            /\ \A i \in LinkedItems(db', op, u, e) :
                    i.line_no \in Range(last'.payment.lines)
                        => i.updated_at = clock
      ]_vars

C2_Witness ==
    /\ last.op \in SyncOps /\ last.ok /\ last.repeat
    /\ Len(last.payment.lines) > 0
    /\ clock > 0
    /\ \E r \in HeaderRows(db, last.op, last.user_id, last.payment.ext) :
            r.updated_at = clock

\* The rows of a provider's tables that belong to owners other than u.
OthersRows(d, op, u) ==
    LET hs == { r \in HeadersOf(d, op) : r.user_id # u }
    IN  [ headers |-> hs,
          items |-> { i \in ItemsOf(d, op) :
                        i.payment_id \in { r.id : r \in hs } } ]

\* C3: syncing the same external id under two existing owners gives each
\* owner its own header row with its own surrogate id and line items, and a
\* sync under one owner changes nothing in another owner's header or items.
C3_OwnersIndependent ==
    [][ Ran(SyncOps) =>
        LET op == last'.op
            u  == last'.user_id
        IN  /\ \A o \in SyncOps : OthersRows(db', o, u) = OthersRows(db, o, u)
            /\ last'.ok =>
                  /\ Cardinality(HeaderRows(db', op, u, last'.payment.ext)) = 1
                  /\ \A r1, r2 \in HeadersOf(db', op) :
                        r1.id = r2.id => r1 = r2
                  /\ \A i \in LinkedItems(db', op, u, last'.payment.ext) :
                        \A r \in HeadersOf(db', op) :
                            r.id = i.payment_id => r.user_id = u
      ]_vars

C3_Witness ==
    /\ last.op \in SyncOps /\ last.ok
    /\ \E v \in UserIds \ {last.user_id} :
        /\ {last.user_id, v} \subseteq OwnerIds(db)
        /\ LinkedItems(db, last.op, v, last.payment.ext) # {}
        /\ LinkedItems(db, last.op, last.user_id, last.payment.ext) # {}

\* C4: a sync is all-or-nothing: when the header upsert, the surrogate-id
\* lookup, an item upsert or the commit fails, the call returns an error and
\* storage is exactly as before the call.
C4_SyncAllOrNothing ==
    [][ Ran(SyncOps) =>
        /\ last'.fail_at # 0 => ~last'.ok
        /\ ~last'.ok => db' = db
      ]_vars

C4_Witness ==
    /\ last.op \in SyncOps /\ ~last.ok
    /\ last.fail_at = 4
    /\ HeaderRows(db, last.op, last.user_id, last.payment.ext) = {}

\* C10 as stated: delete_user for owner U removes exactly U's row, U's
\* credentials, U's payment headers of both providers and their line items,
\* and leaves every other row unchanged.
C10_DeleteUserCascades ==
    [][ Ran({"delete_user"}) =>
        LET u == last'.user_id
        IN  /\ db'.tbl_user = { r \in db.tbl_user : r.id # u }
            /\ db'.tbl_credential =
                    SelectSeq(db.tbl_credential, LAMBDA c : c.user_id # u)
            /\ \A o \in SyncOps :
                /\ HeadersOf(db', o) = OthersRows(db, o, u).headers
                /\ ItemsOf(db', o) = OthersRows(db, o, u).items
      ]_vars

\* The header column that stands for the text columns outside status and
\* merchant name.
OtherText(op, r) == IF op = "save_naver_payment" THEN r.paid_at ELSE r.ordered_at

\* C18 (as stated): when a successful sync finds a stored header for
\* (owner, external id), the header keeps its surrogate id, its status,
\* merchant name and amount columns take the payload's values, and its
\* other columns keep the values they had.
C18_OnlyMutableSubsetOverwritten ==
    [][ (Ran(SyncOps) /\ last'.ok) =>
        LET op == last'.op
            u  == last'.user_id
            p  == last'.payment
        IN  \A r \in HeaderRows(db, op, u, p.ext) :
                \E n \in HeaderRows(db', op, u, p.ext) :
                    /\ n.id = r.id
                    /\ n.status_code = p.val
                    /\ n.merchant_name = p.val
                    /\ n.total_amount = p.val
                    /\ n.discount_amount = p.val
                    /\ n.external_id = r.external_id
                    /\ OtherText(op, n) = OtherText(op, r) ]_vars

\* C19 (as stated): when a successful sync finds a stored line item for
\* (surrogate id, line number), every business column of the item, rest
\* amount and memo included, has the payload item's value afterwards.
C19_ItemFullyOverwritten ==
    [][ (Ran(SyncOps) /\ last'.ok) =>
        LET op == last'.op
            u  == last'.user_id
            p  == last'.payment
        IN  \A i \in LinkedItems(db, op, u, p.ext) :
                i.line_no \in Range(p.lines) =>
                    \E n \in LinkedItems(db', op, u, p.ext) :
                        /\ n.id = i.id
                        /\ n.line_no = i.line_no
                        /\ n.product_name = p.val
                        /\ n.quantity = p.val
                        /\ n.rest_amount = p.val
                        /\ n.memo = p.val ]_vars

\* C20: a sync, successful or not, removes no line item of either
\* provider, and every stored item other than those of the synced payment
\* whose line number is in the payload is left exactly as it was.
C20_SyncKeepsItems ==
    [][ Ran(SyncOps) =>
        \A o \in SyncOps : \A i \in ItemsOf(db, o) :
            /\ \E n \in ItemsOf(db', o) :
                    n.id = i.id /\ n.payment_id = i.payment_id
                                /\ n.line_no = i.line_no
            /\ ~( /\ o = last'.op
                  /\ i \in LinkedItems(db, o, last'.user_id, last'.payment.ext)
                  /\ i.line_no \in Range(last'.payment.lines) )
                => i \in ItemsOf(db', o) ]_vars

\* A later successful sync of a payment without a line number that an
\* earlier sync stored: the item is still there with its earlier values.
C20_Witness ==
    /\ last.op \in SyncOps /\ last.ok
    /\ clock > 0
    /\ \E i \in LinkedItems(db, last.op, last.user_id, last.payment.ext) :
            /\ i.line_no \notin Range(last.payment.lines)
            /\ i.updated_at < clock
            /\ i.quantity # last.payment.val
    /\ \E i \in LinkedItems(db, last.op, last.user_id, last.payment.ext) :
            i.line_no \in Range(last.payment.lines)

\* ======================================================= claims: ledger
EntryWriteOps ==
    {"create_ledger_entry", "update_ledger_entry", "delete_ledger_entry"}

LedgerOps ==
    EntryWriteOps \cup ReadOps \cup
    { "create_ledger_account", "verify_ledger_password",
      "update_ledger_password", "delete_ledger_account" }

\* The sequence h2 is h with exactly one row appended.
OneAppended(h, h2) ==
    /\ Len(h2) = Len(h) + 1
    /\ SubSeq(h2, 1, Len(h)) = h

\* A snapshot carries the fields of an input.
SameAsInput(snap, e) ==
    /\ snap.type = e.type /\ snap.amount = e.val /\ snap.title = e.val
    /\ snap.platform = e.platform /\ snap.tags = e.tags

\* C5 as stated: each successful create_ledger_entry, and each successful
\* update_ledger_entry and delete_ledger_entry of a stored entry, appends
\* exactly one history row for the entry:
\* create with only an after-snapshot equal to the input, update with both
\* snapshots, delete with only a before-snapshot.
C5_OneHistoryRowPerWrite ==
    [][ ( /\ Ran(EntryWriteOps) /\ last'.ok
          /\ \/ last'.op = "create_ledger_entry"
             \/ \E x \in db.tbl_ledger_entry : x.id = last'.entry_id ) =>
        LET id == last'.entry_id
            h  == ListLedgerHistory(db, id)
            h2 == ListLedgerHistory(db', id)
        IN  /\ OneAppended(h, h2)
            /\ LET row == h2[Len(h2)]
               IN  IF last'.op = "create_ledger_entry"
                   THEN /\ row.action = "create"
                        /\ row.snapshot_before = {}
                        /\ \E a \in row.snapshot_after :
                                SameAsInput(a, last'.entry)
                   ELSE IF last'.op = "update_ledger_entry"
                   THEN /\ row.action = "update"
                        /\ row.snapshot_before # {}
                        /\ row.snapshot_after # {}
                   ELSE /\ row.action = "delete"
                        /\ row.snapshot_before # {}
                        /\ row.snapshot_after = {}
      ]_vars

\* C6 as stated: after delete_ledger_entry succeeds, every history row ever
\* written for the entry, the delete row included, is still stored and is
\* returned by list_ledger_history for that entry id.
C6_HistorySurvivesDelete ==
    [][ (Ran({"delete_ledger_entry"}) /\ last'.ok) =>
        LET id == last'.entry_id
            h  == ListLedgerHistory(db, id)
            h2 == ListLedgerHistory(db', id)
        IN  /\ \A i \in DOMAIN h : \E j \in DOMAIN h2 : h2[j] = h[i]
            /\ \E j \in DOMAIN h2 :
                    h2[j].action = "delete" /\ h2[j].created_at = clock
      ]_vars

\* C7 as stated: whenever an operation makes a ledger entry row appear,
\* change or disappear (a removal caused by delete_ledger_account
\* included), exactly one new history row is committed with it.
C7_EntryChangeHasHistoryRow ==
    [][ db'.tbl_ledger_entry # db.tbl_ledger_entry =>
            OneAppended(db.tbl_ledger_history, db'.tbl_ledger_history)
      ]_vars

\* C8: a ledger create/update/delete is all-or-nothing: when a statement
\* fails (the entry write, a tag insert such as a tag repeated in the
\* input, the history append, the commit), the call returns an error and
\* the entry rows, the tag rows and the history rows are as before the call.
C8_LedgerAllOrNothing ==
    [][ Ran(EntryWriteOps) =>
        /\ last'.fail_at # 0 => ~last'.ok
        /\ ( /\ last'.op # "delete_ledger_entry"
             /\ \E i, j \in DOMAIN last'.entry.tags :
                    i # j /\ last'.entry.tags[i] = last'.entry.tags[j] )
            => ~last'.ok
        /\ ~last'.ok =>
              /\ db'.tbl_ledger_entry = db.tbl_ledger_entry
              /\ db'.tbl_ledger_tag = db.tbl_ledger_tag
              /\ db'.tbl_ledger_history = db.tbl_ledger_history
      ]_vars

C8_Witness ==
    /\ last.op = "update_ledger_entry" /\ ~last.ok
    /\ last.fail_at = 0
    /\ last.entry.tags = <<1, 1>>
    /\ \E x \in db.tbl_ledger_entry : x.id = last.entry_id
    /\ \E t \in Range(db.tbl_ledger_tag) :
            t.entry_id = last.entry_id /\ t.tag = 2

\* C9 as stated: after any ledger-account or ledger-entry command returns,
\* whether it succeeded or failed, no ledger account is left with a
\* password expiry in the past: its hash and expiry have been cleared.
C9_ExpiredClearedAfterLedgerCommand ==
    [][ Ran(LedgerOps) =>
        \A a \in db'.tbl_ledger_account :
            \A t \in a.password_expires_at : ~(t < clock)
      ]_vars

\* ================================================= claims: product meta
\* The tag rows and the category-link rows of the metas of a key.
MetaTagRows(d, provider, item_id) ==
    SelectSeq(d.tbl_product_tag,
        LAMBDA t : t.meta_id \in { r.id : r \in MetaRows(d, provider, item_id) })

MetaCategoryRows(d, provider, item_id) ==
    SelectSeq(d.tbl_product_category,
        LAMBDA c : c.meta_id \in { r.id : r \in MetaRows(d, provider, item_id) })

NoRepeat(s) == Cardinality(Range(s)) = Len(s)

\* C11: a save_product_meta that repeats, with identical input, the save
\* that had just succeeded for the same (provider, item id) leaves the tag
\* set and the category-link set as the first call left them, with no
\* repeated tag row or link row, and exactly one meta row, the same one.
C11_SecondSaveSameSets ==
    [][ (Ran({"save_product_meta"}) /\ last'.ok /\ last'.repeat) =>
        LET p == last'.provider
            i == last'.item_id
        IN  /\ Cardinality(MetaRows(db', p, i)) = 1
            /\ { r.id : r \in MetaRows(db', p, i) }
                    = { r.id : r \in MetaRows(db, p, i) }
            /\ MetaTagRows(db', p, i) = MetaTagRows(db, p, i)
            /\ MetaCategoryRows(db', p, i) = MetaCategoryRows(db, p, i)
            /\ NoRepeat(MetaTagRows(db', p, i))
            /\ NoRepeat(MetaCategoryRows(db', p, i))
            /\ Len(db'.tbl_product_tag) = Len(db.tbl_product_tag)
            /\ Len(db'.tbl_product_category) = Len(db.tbl_product_category)
      ]_vars

C11_Witness ==
    /\ last.op = "save_product_meta" /\ last.ok /\ last.repeat
    /\ Len(last.input.tags) = 1
    /\ Len(last.input.category_ids) = 2
    /\ Len(MetaCategoryRows(db, last.provider, last.item_id)) = 2

\* C12 as stated: after a successful save_product_meta the stored tag set
\* and category-link set of the (provider, item id) equal the tags and
\* category ids of the input, and get_product_meta returns exactly those
\* tags and categories.
C12_SaveReplacesSets ==
    [][ (Ran({"save_product_meta"}) /\ last'.ok) =>
        LET p == last'.provider
            i == last'.item_id
            x == last'.input
        IN  /\ { t.tag : t \in Range(MetaTagRows(db', p, i)) } = Range(x.tags)
            /\ { c.category_id : c \in Range(MetaCategoryRows(db', p, i)) }
                    = Range(x.category_ids)
            /\ \A g \in GetProductMeta(db', p, i) :
                    /\ Range(g.tags) = Range(x.tags)
                    /\ Range(g.categories) = Range(x.category_ids)
      ]_vars

\* ================================================ claims: storage files
MigratingOps == {"init_db", "load_existing_db"}

\* The store at path p (of a path that holds a file).
StoreAt(a, p) == CHOOSE st \in a.files[p] : TRUE

\* C13: when init_db or load_existing_db runs schema-ensure on a file that
\* holds exactly what a first schema-ensure of an empty store produced, the
\* command succeeds and the file has the same tables, indexes, columns and
\* category rows as before.
C13_SecondRunSameSchema ==
    [][ \A p \in Paths :
          ( /\ Ran(MigratingOps)
            /\ last'.path = p
            /\ app.files[p] = {run_migrations({EmptyStore}).store} )
          => /\ last'.ok
             /\ app'.files[p] = app.files[p]
             /\ StoreAt(app', p).tables = AllTables
             /\ StoreAt(app', p).indexes = AllIndexes
             /\ StoreAt(app', p).tbl_category =
                    { DefaultCategory(c) : c \in CategoryIds } ]_vars

\* A second init_db of a path whose file the first init_db created.
C13_Witness ==
    /\ last.op = "init_db" /\ last.ok /\ steps >= 2
    /\ app.files[last.path] = {run_migrations({EmptyStore}).store}
    /\ StoreAt(app, last.path).columns["tbl_coupang_payment"] =
            BaseColumns["tbl_coupang_payment"]
                \cup Range(LaterColumns["tbl_coupang_payment"])

\* The rows of rs, each cut down to the columns cols.
Projected(rs, cols) == { [ c \in cols |-> r[c] ] : r \in rs }

\* C14: after init_db or load_existing_db has run schema-ensure on a file
\* that existed, both migrated tables have every later-introduced column,
\* each has as many rows as before, every row has on every column it had
\* the value it had, and every category row is still stored.
C14_MigrationAddsColumnsKeepsRows ==
    ( /\ last.op \in MigratingOps /\ last.ok /\ last.before # {} )
    => LET old == CHOOSE st \in last.before : TRUE
           new == StoreAt(app, last.path)
       IN  /\ old.tables \subseteq new.tables
           /\ old.tbl_category \subseteq new.tbl_category
           /\ \A t \in MigratedTables :
                /\ new.columns[t] = old.columns[t] \cup Range(LaterColumns[t])
                /\ Cardinality(new.rows[t]) = Cardinality(old.rows[t])
                /\ Projected(new.rows[t], old.columns[t]) = old.rows[t]
                /\ \A r \in new.rows[t] : DOMAIN r = new.columns[t]

\* load_existing_db of a file whose two tables lacked every later column
\* and held a row each.
C14_Witness ==
    /\ last.op = "load_existing_db" /\ last.ok /\ last.before # {}
    /\ \A st \in last.before : \A t \in MigratedTables :
            /\ st.columns[t] = BaseColumns[t]
            /\ st.rows[t] # {}
    /\ \A t \in MigratedTables :
            Range(LaterColumns[t]) \subseteq StoreAt(app, last.path).columns[t]

\* What a file holds: its category rows and, column by column, the rows of
\* the migrated tables.
SameData(old, new) ==
    /\ new.tbl_category = old.tbl_category
    /\ \A t \in MigratedTables :
            Projected(new.rows[t], old.columns[t]) = old.rows[t]

\* C17 (as stated): logout leaves no configured path and changes no file,
\* and a load_existing_db of the path that follows the logout leaves a
\* file of the current schema with the data it had.
C17_LoadAfterLogoutSameData ==
    [][ /\ Ran({"logout"}) =>
            /\ configured_db_path(app') = {}
            /\ app'.files = app.files
        /\ ( /\ Ran({"load_existing_db"}) /\ last'.ok /\ last'.after_logout
             /\ StoreAt(app, last'.path).tables = AllTables ) =>
            SameData(StoreAt(app, last'.path), StoreAt(app', last'.path)) ]_vars

\* C17 (amended): logout leaves no configured path and changes no file; a
\* load_existing_db of the path that follows the logout keeps every row
\* the file held, and the only rows it adds are default categories that
\* were not stored.
C17_LogoutKeepsFile ==
    [][ /\ Ran({"logout"}) =>
            /\ configured_db_path(app') = {}
            /\ app'.files = app.files
        /\ ( Ran({"load_existing_db"}) /\ last'.ok /\ last'.after_logout ) =>
            LET old == StoreAt(app, last'.path)
                new == StoreAt(app', last'.path)
            IN  /\ old.tbl_category \subseteq new.tbl_category
                /\ new.tbl_category \ old.tbl_category \subseteq
                        { DefaultCategory(c) : c \in CategoryIds }
                /\ \A t \in MigratedTables :
                        Projected(new.rows[t], old.columns[t]) = old.rows[t]
                /\ app'.db_path = {last'.path} ]_vars

\* A logout from a file with rows, then load_existing_db of its path.
C17_Witness ==
    /\ last.op = "load_existing_db" /\ last.ok /\ last.after_logout
    /\ app.db_path = {last.path}
    /\ \A st \in last.before : \A t \in MigratedTables : st.rows[t] # {}

\* ======================================================= claims: owners
\* The credential rows of owner u, in insertion order.
CredentialsOf(d, u) == SelectSeq(d.tbl_credential, LAMBDA c : c.user_id = u)

\* C15: after update_account_credentials succeeds for owner U, U's
\* credential rows are exactly the pairs of the supplied map, one row each
\* (a key that was stored and is not in the map has no row), and the
\* credential rows of every other owner are the rows they were.
C15_CredentialsReplaced ==
    [][ (Ran({"update_account_credentials"}) /\ last'.ok) =>
        LET u == last'.user_id
            h == last'.headers
        IN  /\ Range(CredentialsOf(db', u)) =
                    { [ user_id |-> u, key |-> x.key, value |-> x.value ]
                      : x \in Range(h) }
            /\ Len(CredentialsOf(db', u)) = Len(h)
            /\ \A k \in last'.removed :
                    ~\E c \in Range(db'.tbl_credential) :
                        c.user_id = u /\ c.key = k
            /\ \A o \in UserIds \ {u} :
                    CredentialsOf(db', o) = CredentialsOf(db, o) ]_vars

\* A successful update for a stored owner that drops a stored key while
\* another owner holds credentials.
C15_Witness ==
    /\ last.op = "update_account_credentials" /\ last.ok
    /\ last.removed # {}
    /\ last.headers # <<>>
    /\ \E u \in db.tbl_user : u.id = last.user_id
    /\ \E c \in Range(db.tbl_credential) : c.user_id # last.user_id

\* ================================================== claims: uniqueness
\* No two positions of the sequence hold rows that agree on the key.
UniqueIn(rows, Key(_)) ==
    \A i, j \in DOMAIN rows : Key(rows[i]) = Key(rows[j]) => i = j

\* No two rows of the set agree on the key.
UniqueAmong(rows, Key(_)) ==
    \A r1, r2 \in rows : Key(r1) = Key(r2) => r1 = r2

\* C16: in every reachable state there is at most one credential row per
\* (owner, key), one payment header per (owner, external id) in each
\* provider's table, one line item per (surrogate payment id, line number),
\* one product-meta row per (provider, item id), and no tag stored twice
\* for a ledger entry or for a product meta.
C16_UniqueKeys ==
    /\ UniqueIn(db.tbl_credential, LAMBDA c : <<c.user_id, c.key>>)
    /\ \A o \in SyncOps :
        /\ UniqueAmong(HeadersOf(db, o), LAMBDA r : <<r.user_id, ExtOf(o, r)>>)
        /\ UniqueAmong(HeadersOf(db, o), LAMBDA r : r.id)
        /\ UniqueAmong(ItemsOf(db, o), LAMBDA i : <<i.payment_id, i.line_no>>)
        /\ UniqueAmong(ItemsOf(db, o), LAMBDA i : i.id)
    /\ UniqueAmong(db.tbl_product_meta, LAMBDA m : <<m.provider, m.item_id>>)
    /\ UniqueIn(db.tbl_ledger_tag, LAMBDA t : <<t.entry_id, t.tag>>)
    /\ UniqueIn(db.tbl_product_tag, LAMBDA t : <<t.meta_id, t.tag>>)

\* A sync of two line items repeated for an owner whose credentials were
\* saved with two keys.
C16_Witness ==
    /\ last.op \in SyncOps /\ last.ok /\ last.repeat
    /\ Cardinality(LinkedItems(db, last.op, last.user_id, last.payment.ext)) = 2
    /\ Len(CredentialsOf(db, last.user_id)) = 2

\* ============================================= claims: ledger snapshots
\* What a snapshot says of the entry: its business fields under either
\* spelling of the keys, and its tags (none when the snapshot has no tags
\* key).
BusinessOf(s) ==
    [ account_id |-> IF "accountId" \in DOMAIN s THEN s.accountId
                     ELSE s.account_id,
      type |-> s.type, amount |-> s.amount, title |-> s.title,
      platform |-> s.platform,
      tags |-> IF "tags" \in DOMAIN s THEN Range(s.tags) ELSE {} ]

\* C21 (as stated): for every entry, the before-snapshot of each history
\* row that follows a create or update row of the entry describes the
\* same business fields and the same tag set as that row's after-snapshot.
C21_SnapshotsChain ==
    \A id \in EntryIds :
        LET h == ListLedgerHistory(db, id)
        IN  \A k \in 1..(Len(h) - 1) :
                \A a \in h[k].snapshot_after : \A b \in h[k + 1].snapshot_before :
                    BusinessOf(b) = BusinessOf(a)

\* C22: after a successful update_ledger_entry the entry's tag rows are
\* the input's tags, one row each and no other, and get_ledger_entry
\* answers with the entry and exactly those tags.
C22_UpdateReplacesTags ==
    [][ (Ran({"update_ledger_entry"}) /\ last'.ok) =>
        LET id   == last'.entry_id
            tags == last'.entry.tags
            rows == EntryTagRows(db', id)
        IN  /\ { t.tag : t \in Range(rows) } = Range(tags)
            /\ Len(rows) = Len(tags)
            /\ Cardinality(GetLedgerEntry(db', id)) = 1
            /\ \A g \in GetLedgerEntry(db', id) :
                    /\ Range(g.tags) = Range(tags)
                    /\ Len(g.tags) = Len(tags) ]_vars

\* A successful update whose input lacks a tag the entry was created with
\* and brings one it did not have.
C22_Witness ==
    /\ last.op = "update_ledger_entry" /\ last.ok
    /\ LET h == ListLedgerHistory(db, last.entry_id)
       IN  /\ Len(h) = 2
           /\ \A a \in h[1].snapshot_after :
                /\ Range(a.tags) \ Range(last.entry.tags) # {}
                /\ Range(last.entry.tags) \ Range(a.tags) # {}

\* ============================================= claims: password expiry
\* The commands that are not ledger commands: schema, owner, credential,
\* payment sync, product meta and category commands.
NonLedgerOps ==
    { "init_db", "load_existing_db", "get_db_status", "logout",
      "save_account", "update_account_credentials", "delete_user",
      "save_naver_payment", "save_coupang_payment", "save_product_meta",
      "delete_product_meta", "delete_category" }

\* C23: a command that is not a ledger command leaves every ledger
\* account row as it was, so a hash whose expiry has passed stays stored
\* across it.
C23_OnlyLedgerOpsApplyExpiry ==
    [][ Ran(NonLedgerOps) =>
            /\ db'.tbl_ledger_account = db.tbl_ledger_account
            /\ ExpiredAccounts(db', clock') = ExpiredAccounts(db, clock) ]_vars

\* A command that is not a ledger command has succeeded on a configured
\* file while an account holds a hash whose expiry has passed.
C23_Witness ==
    /\ last.op \in NonLedgerOps \ {"logout"} /\ last.ok
    /\ Configured
    /\ ExpiredAccounts(db, clock) # {}

\* C24: list_ledger_accounts answers no account that holds a hash whose
\* expiry is past, and verify_ledger_password answers true only when the
\* account held, before the call, a hash that is not expired and equals the
\* hash of the supplied password.
C24_ReadsNeverUseExpiredPassword ==
    [][ /\ (Ran({"list_ledger_accounts"}) /\ last'.ok) =>
                /\ ExpiredAccounts([db EXCEPT !.tbl_ledger_account =
                                        last'.accounts], clock') = {}
                /\ \A a \in last'.accounts :
                        a.id \in last'.expired => a.password_hash = {}
        /\ (Ran({"verify_ledger_password"}) /\ last'.ok /\ last'.result) =>
                \E a \in db.tbl_ledger_account :
                    /\ a.id = last'.account_id
                    /\ a.password_hash = { hash_password(last'.password) }
                    /\ a \notin ExpiredAccounts(db, clock) ]_vars

\* list_ledger_accounts has answered an account whose hash had expired
\* before the call.
C24_Witness ==
    /\ last.op = "list_ledger_accounts" /\ last.ok
    /\ \E a \in last.accounts : a.id \in last.expired

\* =================================================== claims: migration
\* C25: in a schema-ensure run, a column-add that fails because the column
\* exists does not make the run fail, and a column-add that fails for any
\* other reason makes the run return a failure.
C25_OtherAlterFailureReturned ==
    [][ Ran({"load_existing_db"}) /\ "failed" \in DOMAIN last' =>
            /\ (last'.failed = {} => last'.ok)
            /\ (last'.failed # {} => ~last'.ok) ]_vars

\* The commands that run run_migrations on a file.
SchemaEnsureOps == MigratingOps \cup {"get_db_status"}

\* C26: a schema-ensure run leaves every category row that the file held
\* as it was (id, name and color), whether it is a default row, a default
\* row a user changed or a row of create_category, and the rows it adds are
\* default rows whose id and name were both absent.
C26_SeedKeepsExistingRows ==
    [][ Ran(SchemaEnsureOps) =>
            \A p \in Paths :
                \A st \in app.files[p] :
                    "tbl_category" \in st.tables =>
                        LET old == st.tbl_category
                            new == StoreAt(app', p).tbl_category
                        IN  /\ old \subseteq new
                            /\ \A r \in new \ old :
                                    /\ r.id \in CategoryIds
                                    /\ r = DefaultCategory(r.id)
                                    /\ \A o \in old :
                                            o.id # r.id /\ o.name # r.name ]_vars

\* A schema-ensure run has succeeded on a file that held a default row
\* with a changed name or color and a created row that carries a default
\* name.
C26_Witness ==
    /\ last.op \in SchemaEnsureOps /\ last.ok
    /\ \E st \in last.before :
          /\ \E r \in st.tbl_category :
                r.id \in CategoryIds /\ r # DefaultCategory(r.id)
          /\ \E r \in st.tbl_category :
                r.id \in CustomCategoryIds /\ r.name \in CategoryIds
          /\ st.tbl_category \subseteq StoreAt(app, default_db_path).tbl_category

\* ============================================ claims: owner atomicity
\* C27: when save_account or update_account_credentials returns an error,
\* the owner rows and the credential rows are exactly as before the call.
C27_AccountWritesAllOrNothing ==
    [][ (Ran({"save_account", "update_account_credentials"}) /\ ~last'.ok) =>
            /\ db'.tbl_user = db.tbl_user
            /\ db'.tbl_credential = db.tbl_credential ]_vars

\* ================================================ claims: table names
\* C28: truncate_table and get_table_data answer every table name that
\* contains a whitespace character or a semicolon with the validation
\* error, and the rows are then as before.
C28_NamesWithBlankOrSemicolonRejected ==
    [][ (/\ Ran({"truncate_table", "get_table_data"})
         /\ \E i \in DOMAIN last'.table_name :
                last'.table_name[i] \in {" ", "\t", ";"}) =>
            /\ ~last'.ok
            /\ last'.error = "validation"
            /\ db' = db ]_vars

\* ===================================================== claims: session
\* No path in memory and none in the preference file.
Unconfigured(a) == configured_db_path(a) = {}

C32_ReferentialIntegrity ==
    LET owners == { u.id : u \in db.tbl_user }
    IN  /\ \A c \in Range(db.tbl_credential) : c.user_id \in owners
        /\ \A o \in SyncOps :
              /\ \A h \in HeadersOf(db, o) : h.user_id \in owners
              /\ \A i \in ItemsOf(db, o) :
                    i.payment_id \in { h.id : h \in HeadersOf(db, o) }
        /\ \A e \in db.tbl_ledger_entry :
              e.account_id \in LedgerAccountIds(db)
        /\ \A t \in Range(db.tbl_ledger_tag) :
              t.entry_id \in { e.id : e \in db.tbl_ledger_entry }

\* ================================================ claims: surrogate ids
\* The provider whose line items a sync writes, as tbl_product_meta names it.
ProviderOf(op) == IF op = "save_naver_payment" THEN "naver" ELSE "coupang"

\* C33: a successful sync leaves every stored header with its surrogate id
\* under the same (owner, external id) and every stored line item with its
\* id under the same (payment, line number), so the line item that a
\* product-meta row names by item id is the same line item afterwards.
C33_SurrogateIdsStable ==
    [][ (Ran(SyncOps) /\ last'.ok) =>
        \A o \in SyncOps :
            /\ \A h \in HeadersOf(db, o) :
                  \E h2 \in HeadersOf(db', o) :
                      /\ h2.id = h.id
                      /\ h2.user_id = h.user_id
                      /\ ExtOf(o, h2) = ExtOf(o, h)
            /\ \A i \in ItemsOf(db, o) :
                  \E i2 \in ItemsOf(db', o) :
                      /\ i2.id = i.id
                      /\ i2.payment_id = i.payment_id
                      /\ i2.line_no = i.line_no
            /\ \A m \in db'.tbl_product_meta :
                  m.provider = ProviderOf(o) =>
                      { <<i.payment_id, i.line_no>> :
                            i \in { x \in ItemsOf(db, o) : x.id = m.item_id } }
                      \subseteq
                      { <<i.payment_id, i.line_no>> :
                            i \in { x \in ItemsOf(db', o) : x.id = m.item_id } }
      ]_vars

\* A sync has repeated the sync before it, for a payment one of whose line
\* items a product-meta row names.
C33_Witness ==
    /\ last.op \in SyncOps /\ last.ok /\ last.repeat
    /\ \E m \in db.tbl_product_meta :
          /\ m.provider = ProviderOf(last.op)
          /\ \E i \in LinkedItems(db, last.op, last.user_id, last.payment.ext) :
                i.id = m.item_id

\* ============================================ claims: password fields
\* C34: in every state each ledger account has a password hash exactly
\* when it has a password expiry.
C34_HashIffExpiry ==
    \A a \in db.tbl_ledger_account :
        (a.password_hash = {}) <=> (a.password_expires_at = {})

\* The purge has cleared an account that held a password, while another
\* account holds one set by update_ledger_password or at creation.
C34_Witness ==
    /\ last.op \in ReadOps \cup {"verify_ledger_password"}
    /\ \E a \in db.tbl_ledger_account :
          a.id \in last.expired /\ a.password_hash = {}
    /\ \E a \in db.tbl_ledger_account : a.password_hash # {}

\* ============================================== claims: unknown entries
\* C35: update_ledger_entry and delete_ledger_entry called with an entry id
\* that is not stored append no history row and leave every row as it was.
C35_NoHistoryForUnknownEntry ==
    [][ (/\ Ran({"update_ledger_entry", "delete_ledger_entry"})
         /\ ~\E e \in db.tbl_ledger_entry : e.id = last'.entry_id) =>
            /\ db'.tbl_ledger_history = db.tbl_ledger_history
            /\ db' = db ]_vars

\* C36: update_ledger_entry never changes the owning account or the creation
\* timestamp of an entry, even when the input names another account id, and
\* the after-snapshot of the history row it appends carries the entry's
\* stored account id and creation timestamp, not the input's account id.
C36_UpdateKeepsAccountAndCreation ==
    [][ Ran({"update_ledger_entry"}) =>
            /\ \A old \in db.tbl_ledger_entry :
                    \E new \in db'.tbl_ledger_entry :
                        /\ new.id = old.id
                        /\ new.account_id = old.account_id
                        /\ new.created_at = old.created_at
            /\ last'.ok =>
                    \A old \in db.tbl_ledger_entry : old.id = last'.entry_id =>
                        LET h == db'.tbl_ledger_history[Len(db'.tbl_ledger_history)]
                        IN  /\ Len(db'.tbl_ledger_history)
                                    = Len(db.tbl_ledger_history) + 1
                            /\ h.entry_id = old.id /\ h.action = "update"
                            /\ \A a \in h.snapshot_after :
                                    /\ a.accountId = old.account_id
                                    /\ a.createdAt = old.created_at
                            /\ h.snapshot_after # {} ]_vars

\* An update naming another account than the entry's owner has succeeded, at
\* a later time than the entry's creation.
C36_Witness ==
    /\ last.op = "update_ledger_entry" /\ last.ok
    /\ \E e \in db.tbl_ledger_entry :
            /\ e.id = last.entry_id
            /\ e.account_id # last.account_id
            /\ e.created_at # e.updated_at

\* ============================================ claims: configured path
\* C37: an init_db or load_existing_db call that fails because schema-ensure
\* fails, the file to load is missing or the preference cannot be written
\* leaves the path in memory and the preference file as they were.
C37_FailedOpenKeepsPathAndPreference ==
    [][ (/\ Ran({"init_db", "load_existing_db"})
         /\ ~last'.ok
         /\ ("fault" \in DOMAIN last'
                => last'.fault \in PreferenceFaults \cup {"migrate"})) =>
            /\ app'.db_path = app.db_path
            /\ app'.config = app.config ]_vars

\* C38: in every reachable state, when the path in memory is set the
\* preference file exists, its text parses and its "dbPath" is that path.
C38_MemoryPathIsPreferencePath ==
    app.db_path # {} =>
        /\ app.config.exists
        /\ ~LoadConfigError(app)
        /\ app.config.dbPath = app.db_path
====
